---- MODULE Spec2Model ----
(***************************************************************************)
(* Model of tscircuit/fastforce: ForceRelaxationSolver                     *)
(* (src/lib/ForceRelaxationSolver.ts) and the driver it inherits.          *)
(*                                                                         *)
(* Numbers.  The source computes in IEEE doubles.  Here a number is an     *)
(* integer count of 1/ONE units (fixed point); every product and quotient  *)
(* is rounded toward zero to that resolution, so rounding is symmetric in  *)
(* sign as it is for doubles.  A sum of two squares that the source only   *)
(* compares with EPS or hands to Math.sqrt is kept exact, at scale ONE^2.  *)
(***************************************************************************)
EXTENDS Integers, Sequences, FiniteSets, TLC

\* ------------------------------------------------------------------------
\* Fixed-point arithmetic
\* ------------------------------------------------------------------------

\* Resolution of the fixed-point numbers: 1.0 is ONE units.
ONE == 100

\* const EPS = 1e-12 : below the resolution, so it is 0 units.
EPS == 0

Abs(x) == IF x < 0 THEN -x ELSE x
Sgn(x) == IF x < 0 THEN -1 ELSE IF x > 0 THEN 1 ELSE 0
Min2(a, b) == IF a < b THEN a ELSE b
Max2(a, b) == IF a > b THEN a ELSE b

\* x units as a number: Num(3) is 3.0 ; Frac(1, 10) is 0.1
Num(n) == n * ONE
Frac(n, d) == (n * ONE) \div d

\* p at scale ONE^2 brought to scale ONE, rounded toward zero
Trunc(p) == Sgn(p) * (Abs(p) \div ONE)

\* x * y for x >= y >= 0 (split so that the intermediate product fits)
MulOrd(x, y) == (x \div ONE) * y + ((x % ONE) * y) \div ONE
MulNat(x, y) == IF x >= y THEN MulOrd(x, y) ELSE MulOrd(y, x)

\* a * b, rounded toward zero
Mul(a, b) == Sgn(a) * Sgn(b) * MulNat(Abs(a), Abs(b))

\* floor(r * ONE / y) for 0 <= r < y ; both are scaled down by k first when
\* r * ONE would not fit the integers of TLC
FracDivScaled(r, y, k) == ((r \div k) * ONE) \div (y \div k)
FracDiv(r, y) == FracDivScaled(r, y, y \div (2147483647 \div ONE) + 1)
DivNat(x, y) == (x \div y) * ONE + FracDiv(x % y, y)

\* a / b, rounded toward zero ; the caller guarantees b # 0
Div(a, b) == Sgn(a) * Sgn(b) * DivNat(Abs(a), Abs(b))

\* x / 2 as the source's "* 0.5", rounded toward zero
Half(x) == Sgn(x) * (Abs(x) \div 2)

\* Math.floor of a number, as an integer
Floor(x) == x \div ONE

\* dx*dx + dy*dy, exact, at scale ONE^2
SqSum(dx, dy) == dx * dx + dy * dy

\* ux*vx + uy*vy at scale ONE (one rounding)
Dot(ux, uy, vx, vy) == Trunc(ux * vx + uy * vy)

RECURSIVE SqrtIter(_, _, _)
SqrtIter(n, lo, hi) ==
  IF lo >= hi THEN lo
  ELSE LET mid == (lo + hi + 1) \div 2
       IN  IF mid * mid <= n THEN SqrtIter(n, mid, hi)
           ELSE SqrtIter(n, lo, mid - 1)

\* Math.sqrt of an exact square sum q (scale ONE^2): the result is at scale ONE
SqrtSq(q) == SqrtIter(q, 0, Min2(q, 46340))

\* Math.PI and TAU = Math.PI * 2
PI == (355 * ONE) \div 113
TAU == PI * 2

\* Math.exp on a number, by e^n * e^r with n = floor(x), 0 <= r < 1
RECURSIVE ExpInt(_, _)
ExpInt(n, acc) ==
  IF acc = 0 \/ n = 0 THEN acc
  ELSE IF n > 0 THEN ExpInt(n - 1, Mul(acc, Frac(271828, 100000)))
  ELSE ExpInt(n + 1, Mul(acc, Frac(36788, 100000)))

\* e^r for 0 <= r < 1 : the series up to r^5, in Horner form
ExpFrac(r) ==
  ONE + Mul(r, ONE + Mul(r, ONE + Mul(r, ONE + Mul(r, ONE + r \div 5) \div 4)
                                  \div 3) \div 2)

MathExp(x) == ExpInt(x \div ONE, ExpFrac(x % ONE))

\* Math.atan2(y, x), in (-PI, PI]
AtanUnit(z) == Mul(PI \div 4, z) + Mul(Mul(Frac(273, 1000), z), ONE - z)
AtanBase(ax, ay) ==
  IF ay <= ax THEN AtanUnit(Div(ay, ax)) ELSE PI \div 2 - AtanUnit(Div(ax, ay))
AtanHalf(x, base) == IF x >= 0 THEN base ELSE PI - base
AtanSigned(y, ang) == IF y < 0 THEN -ang ELSE ang

MathAtan2(y, x) ==
  IF x = 0 /\ y = 0 THEN 0
  ELSE AtanSigned(y, AtanHalf(x, AtanBase(Abs(x), Abs(y))))

\* ------------------------------------------------------------------------
\* Geometry primitives (module level functions of the source)
\* ------------------------------------------------------------------------

clamp01(t) == IF t < 0 THEN 0 ELSE IF t > ONE THEN ONE ELSE t

safeExp(x) ==
  MathExp(IF x > Num(50) THEN Num(50) ELSE IF x < -Num(50) THEN -Num(50) ELSE x)

\* JavaScript % keeps the sign of the dividend
JsMod(a, m) == Sgn(a) * (Abs(a) % m)

wrapToPi(a) ==
  LET a1 == JsMod(a + PI, TAU)
      a2 == IF a1 < 0 THEN a1 + TAU ELSE a1
  IN  a2 - PI

\* closestPointsOnSegments, from the last statement back to the first: each
\* operator takes the constants computed before it as parameters.

\* the returned record (lines 116-121)
ClosestPoints(s, t, c1x, c1y, c2x, c2y) ==
  [s |-> s, t |-> t, c1x |-> c1x, c1y |-> c1y, c2x |-> c2x, c2y |-> c2y,
   distSq |-> SqSum(c1x - c2x, c1y - c2y)]

\* the two closest points from the parameters s and t (lines 114-117)
ClosestAt(p1x, p1y, p2x, p2y, d1x, d1y, d2x, d2y, s, t) ==
  ClosestPoints(s, t, p1x + Mul(d1x, s), p1y + Mul(d1y, s),
                p2x + Mul(d2x, t), p2y + Mul(d2y, t))

\* the branches on tnom (lines 101-110)
ClosestByTnom(a, e, c, b, s0, tnom) ==
  IF tnom < 0 THEN [s |-> clamp01(Div(-c, a)), t |-> 0]
  ELSE IF tnom > e THEN [s |-> clamp01(Div(b - c, a)), t |-> ONE]
  ELSE [s |-> s0, t |-> Div(tnom, e)]

\* s of the general case, then tnom (lines 93-100)
ClosestByDenom(a, e, f, c, b, denom) ==
  IF Abs(denom) > EPS THEN clamp01(Div(Mul(b, f) - Mul(c, e), denom)) ELSE 0
ClosestGeneral(a, e, f, c, b, s0) ==
  ClosestByTnom(a, e, c, b, s0, Mul(b, s0) + f)

\* s and t when at most one segment is degenerate (lines 80-112)
ClosestParams(a, e, f, c, b) ==
  IF a <= EPS
  THEN [s |-> 0, t |-> IF e <= EPS THEN 0 ELSE clamp01(Div(f, e))]
  ELSE IF e <= EPS THEN [s |-> clamp01(Div(-c, a)), t |-> 0]
  ELSE ClosestGeneral(a, e, f, c, b,
                      ClosestByDenom(a, e, f, c, b, Mul(a, e) - Mul(b, b)))

ClosestFromParams(p1x, p1y, p2x, p2y, d1x, d1y, d2x, d2y, st) ==
  ClosestAt(p1x, p1y, p2x, p2y, d1x, d1y, d2x, d2y, st.s, st.t)

\* both segments degenerate, or not (lines 65-78)
ClosestFromDots(p1x, p1y, p2x, p2y, d1x, d1y, d2x, d2y, a, e, f, c, b) ==
  IF a <= EPS /\ e <= EPS
  THEN ClosestPoints(0, 0, p1x, p1y, p2x, p2y)
  ELSE ClosestFromParams(p1x, p1y, p2x, p2y, d1x, d1y, d2x, d2y,
                         ClosestParams(a, e, f, c, b))

\* a, e, f, c, b (lines 58-60, 85, 91)
ClosestFromVectors(p1x, p1y, p2x, p2y, d1x, d1y, d2x, d2y, rx, ry) ==
  ClosestFromDots(p1x, p1y, p2x, p2y, d1x, d1y, d2x, d2y,
                  Dot(d1x, d1y, d1x, d1y), Dot(d2x, d2y, d2x, d2y),
                  Dot(d2x, d2y, rx, ry), Dot(d1x, d1y, rx, ry),
                  Dot(d1x, d1y, d2x, d2y))

closestPointsOnSegments(p1x, p1y, q1x, q1y, p2x, p2y, q2x, q2y) ==
  ClosestFromVectors(p1x, p1y, p2x, p2y, q1x - p1x, q1y - p1y, q2x - p2x,
                     q2y - p2y, p1x - p2x, p1y - p2y)

\* closestPointOnSegment, likewise
ClosestOnSegAt(ppx, ppy, t, cx, cy) ==
  [t |-> t, cx |-> cx, cy |-> cy, dx |-> ppx - cx, dy |-> ppy - cy,
   distSq |-> SqSum(ppx - cx, ppy - cy)]

ClosestOnSegParam(ppx, ppy, ax, ay, vx, vy, t) ==
  ClosestOnSegAt(ppx, ppy, t, ax + Mul(t, vx), ay + Mul(t, vy))

ClosestOnSegVectors(ppx, ppy, ax, ay, vx, vy, wx, wy, vv) ==
  ClosestOnSegParam(ppx, ppy, ax, ay, vx, vy,
                    IF vv > EPS THEN clamp01(Div(Dot(wx, wy, vx, vy), vv))
                    ELSE 0)

closestPointOnSegment(ppx, ppy, ax, ay, bx, by) ==
  ClosestOnSegVectors(ppx, ppy, ax, ay, bx - ax, by - ay, ppx - ax, ppy - ay,
                      Dot(bx - ax, by - ay, bx - ax, by - ay))

\* ------------------------------------------------------------------------
\* Problem records (types.ts) and the state of one solver
\* ------------------------------------------------------------------------

\* An optional field: <<>> when left out, <<v>> when given
Undefined == <<>>
Some(v) == <<v>>

VARIABLES
  input,           \* the problem record handed to the constructor
  position,        \* the externally owned position objects, one per point
  MAX_ITERATIONS,  \* BaseSolver.MAX_ITERATIONS
  iterations,      \* BaseSolver.iterations
  solved,          \* BaseSolver.solved
  failed,          \* BaseSolver.failed
  error,           \* BaseSolver.error
  progress,        \* BaseSolver.progress
  initialized,     \* _initialized
  cache,           \* arrays and scalars written by _ensureInitialized only
  restLen,         \* restLen[i]
  restAngle,       \* restAngle[i]
  px, py,          \* internal positions
  vx, vy,          \* velocities
  fx, fy,          \* force buffer
  segGrid,         \* cellKey -> segment indices
  segCell,         \* segCellMinX/MaxX/MinY/MaxY per segment
  segVisitedMark,  \* visited marks
  kernelLog,       \* what the kernels of the last executed _step did
  graphics,        \* what the last visualize() returned
  inSolve,         \* control is inside solve()
  lastOp,          \* the last call made on the solver
  perturbed,       \* the external writes to position objects so far
  wasSolved,       \* solved, as the last call found it
  nDirect          \* direct _step() calls so far

solverVars == <<MAX_ITERATIONS, iterations, solved, failed, error, progress>>
engineVars == <<initialized, cache, restLen, restAngle, px, py, vx, vy, fx, fy,
                segGrid, segCell, segVisitedMark, kernelLog>>
vars == <<input, position, solverVars, engineVars, graphics, inSolve, lastOp,
          perturbed, wasSolved, nDirect>>

\* 0-based index ranges, as in the source
Idx(n) == 0 .. (n - 1)
PointAt(pts, i) == pts[i + 1]
SegAt(segs, i) == segs[i + 1]

\* A lookup that answers a key never set with the last index
MapGetOrLast(keys, k) ==
  LET hits == {i \in 1 .. Len(keys) : keys[i] = k}
  IN  IF hits = {} THEN Len(keys) - 1
      ELSE (CHOOSE i \in hits : \A j \in hits : j <= i) - 1

\* Map built by set(key, i) for i = 0..n-1: the last index set for a key wins;
\* get(k) of a key never set (undefined in the source) is -1 here
MapGet(keys, k) ==
  LET hits == {i \in 1 .. Len(keys) : keys[i] = k}
  IN  IF hits = {} THEN -1
      ELSE (CHOOSE i \in hits : \A j \in hits : j <= i) - 1

\* mask | (1 << li), on a mask kept as a natural number
BitSet(mask, li) == IF (mask \div (2 ^ li)) % 2 = 1 THEN mask ELSE mask + 2 ^ li
BitTest(mask, li) == (mask \div (2 ^ li)) % 2 = 1

RECURSIVE LayerMask(_, _, _, _)
LayerMask(layerIds, ids, k, mask) ==
  IF k > Len(ids) THEN mask
  ELSE LET li == MapGet(layerIds, ids[k])
       IN  IF li < 0 THEN LayerMask(layerIds, ids, k + 1, mask)
           ELSE LayerMask(layerIds, ids, k + 1, BitSet(mask, li))

RECURSIVE MaxOver(_, _, _)
MaxOver(f, n, acc) ==
  IF n = 0 THEN acc ELSE MaxOver(f, n - 1, Max2(acc, f[n - 1]))

\* The rest snapshot of one segment (lines 315-325)
RestSnapshot(a, b, ipx, ipy) ==
  IF a >= 0 /\ b >= 0
  THEN LET dx == ipx[b] - ipx[a]
           dy == ipy[b] - ipy[a]
       IN  [len |-> SqrtSq(SqSum(dx, dy)), angle |-> MathAtan2(dy, dx)]
  ELSE [len |-> 0, angle |-> 0]

\* Global influence distance and grid constants (lines 328-361)
GridConstants(inp, pr, segHalfWidth, nP, nS) ==
  LET maxPointR == MaxOver(pr, nP, 0)
      maxSegHalf == MaxOver(segHalfWidth, nS, 0)
      ss == inp.interactions.segSegRepel
      ps == inp.interactions.pointSegRepel
      maxMinSep == Max2(ss.minSeparation, ps.minSeparation)
      baseSep == Max2(maxPointR + maxSegHalf, 2 * maxSegHalf) + maxMinSep
      d1 == ss.exponentialDecay
      d2 == ps.exponentialDecay
      minPositiveDecay ==
        IF d1 > 0 /\ d2 > 0 THEN Min2(d1, d2)
        ELSE IF d1 > 0 THEN d1
        ELSE IF d2 > 0 THEN d2
        ELSE 0
      cutoffGap ==
        IF minPositiveDecay > 0
        THEN Div(Frac(6907755, 1000000), minPositiveDecay)
        ELSE baseSep * 10 + ONE
      globalInfluence == baseSep + cutoffGap
  IN  [globalInfluence |-> globalInfluence,
       cellSize |-> Max2(globalInfluence, Frac(1, 1000)),
       gridOriginX |-> inp.bounds.minX,
       gridOriginY |-> inp.bounds.minY]

\* _ensureInitialized, the part after the guard: everything it writes
InitCache(inp, pos) ==
  LET points == inp.points
      segments == inp.segments
      nP == Len(points)
      nS == Len(segments)
      pointIds == [i \in 1 .. nP |-> points[i].pointId]
      useLayerBitmask == Len(inp.layerIds) <= 30
      ipx == [i \in Idx(nP) |-> pos[i + 1].x]
      ipy == [i \in Idx(nP) |-> pos[i + 1].y]
      pr == [i \in Idx(nP) |-> PointAt(points, i).radius]
      a == [i \in Idx(nS) |-> MapGet(pointIds, SegAt(segments, i).startPointId)]
      b == [i \in Idx(nS) |-> MapGet(pointIds, SegAt(segments, i).endPointId)]
      li == [i \in Idx(nS) |-> MapGet(inp.layerIds, SegAt(segments, i).layerId)]
      half == [i \in Idx(nS) |-> Half(SegAt(segments, i).width)]
      rest == [i \in Idx(nS) |-> RestSnapshot(a[i], b[i], ipx, ipy)]
      grid == GridConstants(inp, pr, half, nP, nS)
  IN  [cache |->
         [pointsCount |-> nP,
          segmentsCount |-> nS,
          useLayerBitmask |-> useLayerBitmask,
          pointLayerMask32 |->
            IF useLayerBitmask
            THEN [i \in Idx(nP) |->
                    LayerMask(inp.layerIds, PointAt(points, i).layerIds, 1, 0)]
            ELSE <<>>,
          pointLayerSets |->
            IF useLayerBitmask THEN Undefined
            ELSE [i \in Idx(nP) |->
                    {PointAt(points, i).layerIds[k] :
                       k \in 1 .. Len(PointAt(points, i).layerIds)}],
          pr |-> pr,
          movable |-> [i \in Idx(nP) |->
                         IF PointAt(points, i).movable THEN 1 ELSE 0],
          segA |-> a,
          segB |-> b,
          segHalfWidth |-> half,
          segFixedLen |-> [i \in Idx(nS) |->
                             IF SegAt(segments, i).fixedLength THEN 1 ELSE 0],
          segFixedOri |-> [i \in Idx(nS) |->
                             IF SegAt(segments, i).fixedOrientation THEN 1 ELSE 0],
          segLayerIdx |-> li,
          globalInfluence |-> grid.globalInfluence,
          cellSize |-> grid.cellSize,
          gridOriginX |-> grid.gridOriginX,
          gridOriginY |-> grid.gridOriginY],
       px |-> ipx,
       py |-> ipy,
       vx |-> [i \in Idx(nP) |-> 0],
       vy |-> [i \in Idx(nP) |-> 0],
       fx |-> [i \in Idx(nP) |-> 0],
       fy |-> [i \in Idx(nP) |-> 0],
       restLen |-> [i \in Idx(nS) |-> rest[i].len],
       restAngle |-> [i \in Idx(nS) |-> rest[i].angle],
       segVisitedMark |-> [i \in Idx(nS) |-> 0]]

\* The engine's fields as one record
Engine ==
  [cache |-> cache, px |-> px, py |-> py, vx |-> vx, vy |-> vy, fx |-> fx,
   fy |-> fy, restLen |-> restLen, restAngle |-> restAngle,
   segVisitedMark |-> segVisitedMark]

\* An initialisation without the lazy guard
EnsureInitializedAgain(isInit, eng, inp, pos) == InitCache(inp, pos)

\* _ensureInitialized: the lazy guard (lines 224-226)
EnsureInitialized(isInit, eng, inp, pos) ==
  IF isInit THEN eng ELSE InitCache(inp, pos)

\* ------------------------------------------------------------------------
\* Broadphase grid
\* ------------------------------------------------------------------------

CELL_OFFSET == 33554432
CELL_BASE == 67108864

\* (cx + CELL_OFFSET) * CELL_BASE + (cy + CELL_OFFSET).  The key is wider than
\* the integers of TLC, so it is kept as its two digits in base
\* CELL_BASE, <<high, low>>, the carry of the low digit included.
CellKey(cx, cy) ==
  LET lo == cy + CELL_OFFSET
  IN  <<(cx + CELL_OFFSET) + (lo \div CELL_BASE), lo % CELL_BASE>>

\* Math.floor((x - origin) * invCellSize), with invCellSize = 1 / cellSize
CellCoord(x, origin, cellSize) == (x - origin) \div cellSize

\* The cells of a range in the order of the two nested loops (cx outer)
CellSeq(r) ==
  IF r.maxX < r.minX \/ r.maxY < r.minY THEN <<>>
  ELSE LET h == r.maxY - r.minY + 1
           w == r.maxX - r.minX + 1
       IN  [k \in 1 .. (w * h) |->
              <<r.minX + ((k - 1) \div h), r.minY + ((k - 1) % h)>>]

\* A range that stops at the first cell of the segment
SegCellRangeFirstOnly(c, ppx, ppy, i) ==
  LET a == c.segA[i]
      b == c.segB[i]
  IN  IF a < 0 \/ b < 0
      THEN [minX |-> 0, maxX |-> -1, minY |-> 0, maxY |-> -1]
      ELSE
        LET cx == CellCoord(Min2(ppx[a], ppx[b]) - c.globalInfluence,
                            c.gridOriginX, c.cellSize)
            cy == CellCoord(Min2(ppy[a], ppy[b]) - c.globalInfluence,
                            c.gridOriginY, c.cellSize)
        IN  [minX |-> cx, maxX |-> cx, minY |-> cy, maxY |-> cy]

\* The cell range of one segment (lines 400-429)
SegCellRange(c, ppx, ppy, i) ==
  LET a == c.segA[i]
      b == c.segB[i]
  IN  IF a < 0 \/ b < 0
      THEN [minX |-> 0, maxX |-> -1, minY |-> 0, maxY |-> -1]
      ELSE
        LET infl == c.globalInfluence
            minx == Min2(ppx[a], ppx[b]) - infl
            maxx == Max2(ppx[a], ppx[b]) + infl
            miny == Min2(ppy[a], ppy[b]) - infl
            maxy == Max2(ppy[a], ppy[b]) + infl
        IN  [minX |-> CellCoord(minx, c.gridOriginX, c.cellSize),
             maxX |-> CellCoord(maxx, c.gridOriginX, c.cellSize),
             minY |-> CellCoord(miny, c.gridOriginY, c.cellSize),
             maxY |-> CellCoord(maxy, c.gridOriginY, c.cellSize)]

KeysOf(r) == {CellKey(cl[1], cl[2]) : cl \in {CellSeq(r)[k] : k \in DOMAIN CellSeq(r)}}

\* _rebuildSegmentGrid: the ranges, and per key the segments pushed in
\* index order
RebuildSegmentGrid(c, ppx, ppy) ==
  LET n == c.segmentsCount
      ranges == [i \in Idx(n) |-> SegCellRange(c, ppx, ppy, i)]
      keysOf == [i \in Idx(n) |-> KeysOf(ranges[i])]
      keys == UNION {keysOf[i] : i \in Idx(n)}
      order == [k \in 1 .. n |-> k - 1]
  IN  [segCell |-> ranges,
       segGrid |-> [key \in keys |->
                      SelectSeq(order, LAMBDA i : key \in keysOf[i])]]

\* ------------------------------------------------------------------------
\* Force kernels
\* ------------------------------------------------------------------------

\* A membership test that asks the set without looking at the layer index
PointOnLayerAnyIndex(c, pointIndex, segLayerIdx, segLayerId) ==
  IF c.useLayerBitmask
  THEN segLayerIdx >= 0 /\ BitTest(c.pointLayerMask32[pointIndex], segLayerIdx)
  ELSE segLayerId \in c.pointLayerSets[pointIndex]

PointOnLayer(c, pointIndex, segLayerIdx, segLayerId) ==
  IF segLayerIdx < 0 THEN FALSE
  ELSE IF c.useLayerBitmask
  THEN BitTest(c.pointLayerMask32[pointIndex], segLayerIdx)
  ELSE segLayerId \in c.pointLayerSets[pointIndex]

\* A magnitude that leaves the strength out
RepulsionMagnitudeUnit(gap, strength, decay, overlapMultiplier) ==
  IF decay = 0 THEN ONE ELSE safeExp(-Mul(decay, gap))

\* _repulsionMagnitude (lines 377-389)
RepulsionMagnitude(gap, strength, decay, overlapMultiplier) ==
  LET mult == IF gap < 0 THEN overlapMultiplier ELSE ONE
  IN  IF decay = 0 THEN Mul(strength, mult)
      ELSE Mul(Mul(strength, mult), safeExp(-Mul(decay, gap)))

\* A contribution is a sequence of additions [p, fx, fy] to the force buffer
Add(p, dfx, dfy) == [p |-> p, fx |-> dfx, fy |-> dfy]

RECURSIVE Accumulate(_, _, _, _)
Accumulate(bfx, bfy, contrib, k) ==
  IF k > Len(contrib) THEN [fx |-> bfx, fy |-> bfy]
  ELSE LET e == contrib[k]
       IN  Accumulate([bfx EXCEPT ![e.p] = @ + e.fx],
                      [bfy EXCEPT ![e.p] = @ + e.fy], contrib, k + 1)

\* The pair filters without the same-layer test
SegSegPairPassesAnyLayer(c, i, j) ==
  /\ ~(c.segA[j] < 0 \/ c.segB[j] < 0)
  /\ ~(c.segA[i] = c.segA[j] \/ c.segA[i] = c.segB[j] \/
       c.segB[i] = c.segA[j] \/ c.segB[i] = c.segB[j])
  /\ ~(c.movable[c.segA[i]] = 0 /\ c.movable[c.segB[i]] = 0 /\
       c.movable[c.segA[j]] = 0 /\ c.movable[c.segB[j]] = 0)

\* The pair filters of the segment-segment kernel (lines 498-515):
\* TRUE when the pair goes on to the force computation
SegSegPairPasses(c, i, j) ==
  LET a0 == c.segA[i]
      a1 == c.segB[i]
      b0 == c.segA[j]
      b1 == c.segB[j]
  IN  /\ ~(b0 < 0 \/ b1 < 0)
      /\ c.segLayerIdx[j] = c.segLayerIdx[i]
      /\ ~(a0 = b0 \/ a0 = b1 \/ a1 = b0 \/ a1 = b1)
      /\ ~(c.movable[a0] = 0 /\ c.movable[a1] = 0 /\
           c.movable[b0] = 0 /\ c.movable[b1] = 0)

\* The direction of a segment-segment force before normalisation
\* (lines 548-573)
SegSegDirection(res, p1x, p1y, q1x, q1y, p2x, p2y, q2x, q2y) ==
  IF res.distSq <= EPS
  THEN LET mdx == Half(p1x + q1x) - Half(p2x + q2x)
           mdy == Half(p1y + q1y) - Half(p2y + q2y)
       IN  IF SqSum(mdx, mdy) <= EPS
           THEN LET sx == q1x - p1x
                    sy == q1y - p1y
                IN  IF SqSum(-sy, sx) <= EPS THEN [dx |-> ONE, dy |-> 0]
                    ELSE [dx |-> -sy, dy |-> sx]
           ELSE [dx |-> mdx, dy |-> mdy]
  ELSE [dx |-> res.c1x - res.c2x, dy |-> res.c1y - res.c2y]

\* A split that pushes both segments the same way
SegSegDistributeOneWay(a0, a1, b0, b1, ffx, ffy, s, t) ==
  <<Add(a0, Mul(ffx, ONE - s), Mul(ffy, ONE - s)),
    Add(a1, Mul(ffx, s), Mul(ffy, s)),
    Add(b0, Mul(ffx, ONE - t), Mul(ffy, ONE - t)),
    Add(b1, Mul(ffx, t), Mul(ffy, t))>>

\* The force split of one segment-segment pair (lines 582-601)
SegSegDistribute(a0, a1, b0, b1, ffx, ffy, s, t) ==
  LET wA0 == ONE - s
      wA1 == s
      wB0 == ONE - t
      wB1 == t
  IN  <<Add(a0, Mul(ffx, wA0), Mul(ffy, wA0)),
        Add(a1, Mul(ffx, wA1), Mul(ffy, wA1)),
        Add(b0, -Mul(ffx, wB0), -Mul(ffy, wB0)),
        Add(b1, -Mul(ffx, wB1), -Mul(ffy, wB1))>>

\* The contribution of one segment-segment pair that passed the filters
\* (lines 517-601); <<>> when the magnitude is 0.  Each operator takes the
\* constants computed before it as parameters.
SegSegApply(a0, a1, b0, b1, res, mag, d, len) ==
  IF mag = 0 THEN <<>>
  ELSE SegSegDistribute(a0, a1, b0, b1, Mul(Div(d.dx, len), mag),
                        Mul(Div(d.dy, len), mag), res.s, res.t)

SegSegNormalise(a0, a1, b0, b1, res, mag, d) ==
  SegSegApply(a0, a1, b0, b1, res, mag, d, SqrtSq(SqSum(d.dx, d.dy) + EPS))

SegSegFromClosest(a0, a1, b0, b1, ss, required, ppx, ppy, res) ==
  SegSegNormalise(a0, a1, b0, b1, res,
    RepulsionMagnitude(SqrtSq(res.distSq) - required, ss.strength,
                       ss.exponentialDecay, ss.overlapMultiplier),
    SegSegDirection(res, ppx[a0], ppy[a0], ppx[a1], ppy[a1],
                    ppx[b0], ppy[b0], ppx[b1], ppy[b1]))

SegSegEndpoints(c, inp, ppx, ppy, i, j, a0, a1, b0, b1) ==
  SegSegFromClosest(a0, a1, b0, b1, inp.interactions.segSegRepel,
    c.segHalfWidth[i] + c.segHalfWidth[j]
      + inp.interactions.segSegRepel.minSeparation,
    ppx, ppy,
    closestPointsOnSegments(ppx[a0], ppy[a0], ppx[a1], ppy[a1],
                            ppx[b0], ppy[b0], ppx[b1], ppy[b1]))

SegSegPairForce(c, inp, ppx, ppy, i, j) ==
  SegSegEndpoints(c, inp, ppx, ppy, i, j, c.segA[i], c.segB[i], c.segA[j],
                  c.segB[j])

\* One record of kernelLog: query q (a segment or a point index) reached
\* segment s past the visited mark; passed tells whether the pair went through
\* the filters, contrib is what it added to the force buffer
LogEntry(kernel, q, sg, passed, contrib) ==
  [kernel |-> kernel, q |-> q, s |-> sg, passed |-> passed, contrib |-> contrib]

\* The segment lists of the given cells, one after the other
RECURSIVE CellLists(_, _, _)
CellLists(grid, cells, k) ==
  IF k > Len(cells) THEN <<>>
  ELSE LET key == CellKey(cells[k][1], cells[k][2])
       IN  (IF key \in DOMAIN grid THEN grid[key] ELSE <<>>)
             \o CellLists(grid, cells, k + 1)

\* The body of the innermost loop of the segment-segment kernel for the
\* candidates of segment i (lines 492-602).  acc = [fx, fy, mark, log]
SegSegAdded(acc, i, j, passes, contrib, f) ==
  [fx |-> f.fx, fy |-> f.fy,
   mark |-> [acc.mark EXCEPT ![j] = i + 1],
   log |-> Append(acc.log, LogEntry("segSeg", i, j, passes, contrib))]

SegSegAdd(acc, i, j, passes, contrib) ==
  SegSegAdded(acc, i, j, passes, contrib,
              Accumulate(acc.fx, acc.fy, contrib, 1))

SegSegVisit(env, i, j, acc, passes) ==
  SegSegAdd(acc, i, j, passes,
            IF passes
            THEN SegSegPairForce(env.c, env.inp, env.px, env.py, i, j)
            ELSE <<>>)

RECURSIVE SegSegCandidates(_, _, _, _, _)
SegSegCandidates(env, i, list, idx, acc) ==
  IF idx > Len(list) THEN acc
  ELSE IF acc.mark[list[idx]] = i + 1 \/ list[idx] <= i
  THEN SegSegCandidates(env, i, list, idx + 1, acc)
  ELSE SegSegCandidates(env, i, list, idx + 1,
         SegSegVisit(env, i, list[idx], acc,
                     SegSegPairPasses(env.c, i, list[idx])))

\* The outer loop of the segment-segment kernel (lines 462-605)
RECURSIVE SegSegKernel(_, _, _)
SegSegKernel(env, i, acc) ==
  IF i >= env.c.segmentsCount THEN acc
  ELSE
    LET a0 == env.c.segA[i]
        a1 == env.c.segB[i]
        r == env.segCell[i]
        skip == \/ a0 < 0 \/ a1 < 0
                \/ env.c.segLayerIdx[i] < 0
                \/ (env.c.movable[a0] = 0 /\ env.c.movable[a1] = 0)
                \/ r.maxX < r.minX \/ r.maxY < r.minY
    IN  IF skip THEN SegSegKernel(env, i + 1, acc)
        ELSE SegSegKernel(env, i + 1,
               SegSegCandidates(env, i, CellLists(env.segGrid, CellSeq(r), 1),
                                1, acc))

\* The filters of the point-segment kernel (lines 634-651)
PointSegPairPasses(c, inp, pi, si) ==
  LET a == c.segA[si]
      b == c.segB[si]
  IN  /\ ~(a < 0 \/ b < 0)
      /\ ~(pi = a \/ pi = b)
      /\ PointOnLayer(c, pi, c.segLayerIdx[si], SegAt(inp.segments, si).layerId)
      /\ ~(c.movable[pi] = 0 /\ c.movable[a] = 0 /\ c.movable[b] = 0)

\* The direction of a point-segment force (lines 675-693)
PointSegDirection(res, dist, ax, ay, bx, by) ==
  IF res.distSq > EPS
  THEN [ux |-> Div(res.dx, dist), uy |-> Div(res.dy, dist)]
  ELSE LET sx == bx - ax
           sy == by - ay
           nn == SqrtSq(SqSum(sx, sy))
       IN  IF nn > EPS THEN [ux |-> Div(-sy, nn), uy |-> Div(sx, nn)]
           ELSE [ux |-> ONE, uy |-> 0]

\* The force split of one point-segment pair (lines 695-709)
PointSegDistribute(pi, a, b, ffx, ffy, t) ==
  LET w0 == ONE - t
      w1 == t
  IN  <<Add(pi, ffx, ffy),
        Add(a, -Mul(ffx, w0), -Mul(ffy, w0)),
        Add(b, -Mul(ffx, w1), -Mul(ffy, w1))>>

\* The contribution of one point-segment pair that passed the filters
\* (lines 653-709); <<>> when the magnitude is 0
PointSegApply(pi, a, b, res, mag, u) ==
  IF mag = 0 THEN <<>>
  ELSE PointSegDistribute(pi, a, b, Mul(u.ux, mag), Mul(u.uy, mag), res.t)

PointSegFromDist(pi, a, b, ps, required, ppx, ppy, res, dist) ==
  PointSegApply(pi, a, b, res,
    RepulsionMagnitude(dist - required, ps.strength, ps.exponentialDecay,
                       ps.overlapMultiplier),
    PointSegDirection(res, dist, ppx[a], ppy[a], ppx[b], ppy[b]))

PointSegFromClosest(pi, a, b, ps, required, ppx, ppy, res) ==
  PointSegFromDist(pi, a, b, ps, required, ppx, ppy, res, SqrtSq(res.distSq))

PointSegEndpoints(c, inp, ppx, ppy, pi, si, a, b) ==
  PointSegFromClosest(pi, a, b, inp.interactions.pointSegRepel,
    c.pr[pi] + c.segHalfWidth[si] + inp.interactions.pointSegRepel.minSeparation,
    ppx, ppy,
    closestPointOnSegment(ppx[pi], ppy[pi], ppx[a], ppy[a], ppx[b], ppy[b]))

PointSegPairForce(c, inp, ppx, ppy, pi, si) ==
  PointSegEndpoints(c, inp, ppx, ppy, pi, si, c.segA[si], c.segB[si])

\* The candidates of point pi (lines 629-710)
PointSegAdded(acc, pi, si, passes, contrib, f) ==
  [fx |-> f.fx, fy |-> f.fy,
   mark |-> [acc.mark EXCEPT ![si] = pi + 1],
   log |-> Append(acc.log, LogEntry("pointSeg", pi, si, passes, contrib))]

PointSegAdd(acc, pi, si, passes, contrib) ==
  PointSegAdded(acc, pi, si, passes, contrib,
                Accumulate(acc.fx, acc.fy, contrib, 1))

PointSegVisit(env, pi, si, acc, passes) ==
  PointSegAdd(acc, pi, si, passes,
              IF passes
              THEN PointSegPairForce(env.c, env.inp, env.px, env.py, pi, si)
              ELSE <<>>)

RECURSIVE PointSegCandidates(_, _, _, _, _)
PointSegCandidates(env, pi, list, li, acc) ==
  IF li > Len(list) THEN acc
  ELSE IF acc.mark[list[li]] = pi + 1
  THEN PointSegCandidates(env, pi, list, li + 1, acc)
  ELSE PointSegCandidates(env, pi, list, li + 1,
         PointSegVisit(env, pi, list[li], acc,
                       PointSegPairPasses(env.c, env.inp, pi, list[li])))

\* The 3x3 neighbourhood of the cell of point pi, in loop order
PointCells(c, ppx, ppy, pi) ==
  LET cx == CellCoord(ppx[pi], c.gridOriginX, c.cellSize)
      cy == CellCoord(ppy[pi], c.gridOriginY, c.cellSize)
  IN  CellSeq([minX |-> cx - 1, maxX |-> cx + 1, minY |-> cy - 1, maxY |-> cy + 1])

\* The point-segment kernel (lines 607-714)
RECURSIVE PointSegKernel(_, _, _)
PointSegKernel(env, pi, acc) ==
  IF pi >= env.c.pointsCount THEN acc
  ELSE PointSegKernel(env, pi + 1,
         PointSegCandidates(env, pi,
           CellLists(env.segGrid, PointCells(env.c, env.px, env.py, pi), 1),
           1, acc))

\* One edge of the keep-in force (lines 742-743)
EdgeMagnitude(gap, s, k, om) ==
  Mul(Mul(IF gap < 0 THEN om ELSE ONE, s),
      IF k = 0 THEN ONE ELSE safeExp(-Mul(k, gap)))

\* Bounds keep-in, for one point (lines 724-764)
BoundsContribution(c, inp, ppx, ppy, i) ==
  LET minX == inp.bounds.minX + inp.boundaryPadding
      minY == inp.bounds.minY + inp.boundaryPadding
      maxX == inp.bounds.maxX - inp.boundaryPadding
      maxY == inp.bounds.maxY - inp.boundaryPadding
      x == ppx[i]
      y == ppy[i]
      r == c.pr[i]
      gapL == x - (minX + r)
      gapR == maxX - r - x
      gapB == y - (minY + r)
      gapT == maxY - r - y
      bk == inp.interactions.boundsKeepIn
      k == bk.exponentialDecay
      s == bk.strength
      om == bk.overlapMultiplier
  IN  <<Add(i, EdgeMagnitude(gapL, s, k, om), 0),
        Add(i, -EdgeMagnitude(gapR, s, k, om), 0),
        Add(i, 0, EdgeMagnitude(gapB, s, k, om)),
        Add(i, 0, -EdgeMagnitude(gapT, s, k, om))>>

\* Fixed-length correction, for one segment (lines 773-798).  Each operator
\* takes the constants computed before it as parameters.
\* Additions of the opposite sign
FixedLengthApplyApart(a, b, ux, uy, mag) ==
  <<Add(a, -Mul(ux, mag), -Mul(uy, mag)), Add(b, Mul(ux, mag), Mul(uy, mag))>>

FixedLengthApply(a, b, ux, uy, mag) ==
  <<Add(a, Mul(ux, mag), Mul(uy, mag)), Add(b, -Mul(ux, mag), -Mul(uy, mag))>>

FixedLengthFromErr(a, b, k, s, dx, dy, len, err) ==
  IF Abs(err) <= 0 THEN <<>>
  ELSE FixedLengthApply(a, b, Div(dx, len), Div(dy, len),
         Mul(Mul(s, err), IF k = 0 THEN ONE ELSE safeExp(Mul(k, Abs(err)))))

FixedLengthFromLen(a, b, k, s, dx, dy, len, rest) ==
  IF len <= EPS THEN <<>>
  ELSE FixedLengthFromErr(a, b, k, s, dx, dy, len, len - rest)

FixedLengthFromEnds(c, fc, ppx, ppy, rest, a, b) ==
  IF a < 0 \/ b < 0 THEN <<>>
  ELSE IF c.movable[a] = 0 /\ c.movable[b] = 0 THEN <<>>
  ELSE FixedLengthFromLen(a, b, fc.exponentialDecay, fc.strength,
         ppx[b] - ppx[a], ppy[b] - ppy[a],
         SqrtSq(SqSum(ppx[b] - ppx[a], ppy[b] - ppy[a])), rest)

FixedLengthContribution(c, inp, ppx, ppy, rl, i) ==
  IF c.segFixedLen[i] = 0 THEN <<>>
  ELSE FixedLengthFromEnds(c, inp.interactions.fixedLengthCorrection, ppx, ppy,
                           rl[i], c.segA[i], c.segB[i])

\* Fixed-orientation correction, for one segment (lines 808-838)
FixedOrientationApply(a, b, nx, ny, mag) ==
  <<Add(a, Mul(nx, mag), Mul(ny, mag)), Add(b, -Mul(nx, mag), -Mul(ny, mag))>>

FixedOrientationFromErr(a, b, k, s, dx, dy, len, err) ==
  FixedOrientationApply(a, b, -Div(dy, len), Div(dx, len),
    Mul(Mul(Mul(s, err), len),
        IF k = 0 THEN ONE ELSE safeExp(Mul(k, Abs(err)))))

FixedOrientationFromLen(a, b, k, s, dx, dy, len, rest) ==
  IF len <= EPS THEN <<>>
  ELSE FixedOrientationFromErr(a, b, k, s, dx, dy, len,
                               wrapToPi(MathAtan2(dy, dx) - rest))

FixedOrientationFromEnds(c, fc, ppx, ppy, rest, a, b) ==
  IF a < 0 \/ b < 0 THEN <<>>
  ELSE IF c.movable[a] = 0 /\ c.movable[b] = 0 THEN <<>>
  ELSE FixedOrientationFromLen(a, b, fc.exponentialDecay, fc.strength,
         ppx[b] - ppx[a], ppy[b] - ppy[a],
         SqrtSq(SqSum(ppx[b] - ppx[a], ppy[b] - ppy[a])), rest)

FixedOrientationContribution(c, inp, ppx, ppy, ra, i) ==
  IF c.segFixedOri[i] = 0 THEN <<>>
  ELSE FixedOrientationFromEnds(c, inp.interactions.fixedOrientationCorrection,
                                ppx, ppy, ra[i], c.segA[i], c.segB[i])

\* The contributions of a per-index kernel for indices 0 .. n-1, in order
RECURSIVE Collect(_, _, _)
Collect(per, n, i) ==
  IF i >= n THEN <<>> ELSE per[i] \o Collect(per, n, i + 1)

\* ------------------------------------------------------------------------
\* Relaxation schedule and integrator
\* ------------------------------------------------------------------------

OrElse(opt, default) == IF opt = Undefined THEN default ELSE opt[1]

\* A fade that starts one step late
RelaxationScaleLate(inp, maxIter, iters) ==
  LET relaxationSteps == OrElse(inp.solve.relaxationSteps, 0)
      remainingSteps == maxIter - iters + 1
  IN  IF relaxationSteps > 0 /\ remainingSteps <= relaxationSteps
      THEN Div(Num(remainingSteps), Num(relaxationSteps))
      ELSE ONE

\* relaxationScale of a step (lines 843-848); 1.0 outside the fade
RelaxationScale(inp, maxIter, iters) ==
  LET relaxationSteps == OrElse(inp.solve.relaxationSteps, 0)
      remainingSteps == maxIter - iters
  IN  IF relaxationSteps > 0 /\ remainingSteps <= relaxationSteps
      THEN Div(Num(remainingSteps), Num(relaxationSteps))
      ELSE ONE

\* A fade that leaves the force buffer as it is
RelaxForcesKept(inp, maxIter, iters, bfx, bfy) == [fx |-> bfx, fy |-> bfy]

\* The force buffer after the fade (lines 845-853)
RelaxForces(inp, maxIter, iters, bfx, bfy) ==
  LET relaxationSteps == OrElse(inp.solve.relaxationSteps, 0)
      scale == RelaxationScale(inp, maxIter, iters)
  IN  IF relaxationSteps > 0 /\ maxIter - iters <= relaxationSteps
      THEN [fx |-> [i \in DOMAIN bfx |-> Mul(bfx[i], scale)],
            fy |-> [i \in DOMAIN bfy |-> Mul(bfy[i], scale)]]
      ELSE [fx |-> bfx, fy |-> bfy]

\* A friction that fades with the forces
EffectiveFrictionFaded(inp, relaxationScale) ==
  Mul(OrElse(inp.solve.friction, ONE), relaxationScale)

\* friction of a step (lines 860-865)
EffectiveFriction(inp, relaxationScale) ==
  LET baseFriction == OrElse(inp.solve.friction, ONE)
  IN  IF relaxationScale < ONE
      THEN ONE - Mul(ONE - baseFriction, relaxationScale)
      ELSE baseFriction

\* No movement clamp at all
MoveUnclamped(maxMovePerStep, nvx, nvy, m) ==
  [vx |-> nvx, vy |-> nvy, m |-> m, clamped |-> FALSE]

\* The movement clamp (lines 886-895) on a velocity of magnitude m ; clamped
\* tells whether the branch was taken
MoveClamp(maxMovePerStep, nvx, nvy, m) ==
  IF maxMovePerStep # Undefined /\ maxMovePerStep[1] > 0 /\ m > maxMovePerStep[1]
  THEN LET s == Div(maxMovePerStep[1], m)
       IN  [vx |-> Mul(nvx, s), vy |-> Mul(nvy, s), m |-> maxMovePerStep[1],
            clamped |-> TRUE]
  ELSE [vx |-> nvx, vy |-> nvy, m |-> m, clamped |-> FALSE]

\* One pass of the integration loop, for point i (lines 871-910)
IntegrateClamped(opx, opy, cl) ==
  [vx |-> cl.vx, vy |-> cl.vy, px |-> opx + cl.vx, py |-> opy + cl.vy,
   moved |-> TRUE, m |-> cl.m, clamped |-> cl.clamped]

IntegrateVelocity(inp, nvx, nvy, opx, opy) ==
  IF SqSum(nvx, nvy) <= EPS
  THEN [vx |-> 0, vy |-> 0, px |-> opx, py |-> opy, moved |-> FALSE, m |-> 0,
        clamped |-> FALSE]
  ELSE IntegrateClamped(opx, opy,
         MoveClamp(inp.solve.maxMovePerStep, nvx, nvy,
                   SqrtSq(SqSum(nvx, nvy))))

\* The integration of a point whatever its movable flag
IntegrateAnyPoint(isMovable, inp, momentum, ovx, ovy, ffx, ffy, opx, opy) ==
  IntegrateVelocity(inp,
    Mul(ovx, momentum) + Mul(ffx, inp.solve.stepSize),
    Mul(ovy, momentum) + Mul(ffy, inp.solve.stepSize), opx, opy)

IntegratePoint(isMovable, inp, momentum, ovx, ovy, ffx, ffy, opx, opy) ==
  IF isMovable = 0
  THEN [vx |-> ovx, vy |-> ovy, px |-> opx, py |-> opy, moved |-> FALSE,
        m |-> 0, clamped |-> FALSE]
  ELSE IntegrateVelocity(inp,
         Mul(ovx, momentum) + Mul(ffx, inp.solve.stepSize),
         Mul(ovy, momentum) + Mul(ffy, inp.solve.stepSize), opx, opy)

\* Math.min(1, epsMove / Math.max(epsMove, maxMove)) ; 0/0 is NaN in the
\* source, written -ONE here
Progress(epsMove, maxMove) ==
  LET den == Max2(epsMove, maxMove)
  IN  IF den = 0 THEN -ONE ELSE Min2(ONE, Div(epsMove, den))

\* A convergence test that every step passes
ConvergedAlways(maxMove, epsMove) == TRUE

\* The convergence test (lines 916-918)
Converged(maxMove, epsMove) == maxMove <= epsMove

\* ------------------------------------------------------------------------
\* _step
\* ------------------------------------------------------------------------

\* What the kernels read: the cache, the problem, the positions and the grid
KernelEnv(c, inp, ppx, ppy, grid) ==
  [c |-> c, inp |-> inp, px |-> ppx, py |-> ppy, segGrid |-> grid.segGrid,
   segCell |-> grid.segCell]

\* The cleared force buffer (lines 446-448) with the visited marks as they are
ClearedForces(c, marks) ==
  [fx |-> [i \in Idx(c.pointsCount) |-> 0],
   fy |-> [i \in Idx(c.pointsCount) |-> 0], mark |-> marks, log |-> <<>>]

\* The contributions of the three per-index kernels (lines 716-840)
BoundsForces(c, inp, ppx, ppy) ==
  Collect([i \in Idx(c.pointsCount) |->
             BoundsContribution(c, inp, ppx, ppy, i)], c.pointsCount, 0)
FixedLengthForces(c, inp, ppx, ppy, rl) ==
  Collect([i \in Idx(c.segmentsCount) |->
             FixedLengthContribution(c, inp, ppx, ppy, rl, i)],
          c.segmentsCount, 0)
FixedOrientationForces(c, inp, ppx, ppy, ra) ==
  Collect([i \in Idx(c.segmentsCount) |->
             FixedOrientationContribution(c, inp, ppx, ppy, ra, i)],
          c.segmentsCount, 0)

\* The integration loop (lines 868-911), one record per point
IntegratePoints(e, inp, scale, rf) ==
  [i \in Idx(e.cache.pointsCount) |->
     IntegratePoint(e.cache.movable[i], inp,
                    ONE - EffectiveFriction(inp, scale), e.vx[i], e.vy[i],
                    rf.fx[i], rf.fy[i], e.px[i], e.py[i])]

\* The position objects after the write back (lines 905-908)
WriteBack(pos, pt) ==
  [k \in DOMAIN pos |->
     IF pt[k - 1].moved THEN [x |-> pt[k - 1].px, y |-> pt[k - 1].py]
     ELSE pos[k]]

\* kernelLog before any _step has run its kernels
NoLog == [ran |-> FALSE, pairs |-> <<>>, fixedLen |-> <<>>, fixedOri |-> <<>>,
          scale |-> ONE, maxMove |-> 0, clamped |-> {}, history |-> <<>>,
          px |-> <<>>, py |-> <<>>]

\* ------------------------------------------------------------------------
\* visualize
\* ------------------------------------------------------------------------

\* The segments both visualizers draw: those whose endpoints resolve
DrawnSegments(inp) ==
  LET ids == [i \in 1 .. Len(inp.points) |-> inp.points[i].pointId]
  IN  SelectSeq(inp.segments,
                LAMBDA sg : MapGet(ids, sg.startPointId) >= 0
                            /\ MapGet(ids, sg.endPointId) >= 0)

LineOf(inp, pos, sg) ==
  LET ids == [i \in 1 .. Len(inp.points) |-> inp.points[i].pointId]
  IN  <<pos[MapGet(ids, sg.startPointId) + 1], pos[MapGet(ids, sg.endPointId) + 1]>>

\* visualizeInputProblem: the rectangles, lines, points and circles it pushes
VisualizeInputProblem(inp, pos) ==
  LET drawn == DrawnSegments(inp)
      minSep == inp.interactions.pointSegRepel.minSeparation
  IN  [view |-> "input",
       rects |-> IF inp.boundaryPadding > 0 THEN 2 ELSE 1,
       lines |-> [k \in 1 .. (2 * Len(drawn)) |->
                    LineOf(inp, pos, drawn[(k + 1) \div 2])],
       points |-> pos,
       circles |-> Len(SelectSeq(inp.points, LAMBDA q : q.radius > 0))
                   + Len(SelectSeq(inp.points, LAMBDA q : q.radius + minSep > 0))]

\* visualizeForceRelaxationSolver
VisualizeForceRelaxationSolver(inp, pos) ==
  LET drawn == DrawnSegments(inp)
  IN  [view |-> "solver",
       rects |-> 1,
       lines |-> [k \in 1 .. Len(drawn) |-> LineOf(inp, pos, drawn[k])],
       points |-> pos,
       circles |-> Len(SelectSeq(inp.points, LAMBDA q : q.radius > 0))]

\* ------------------------------------------------------------------------
\* Problems the solver is constructed from
\* ------------------------------------------------------------------------

Point(id, x, y, movable, radius, layerIds) ==
  [pointId |-> id, x |-> x, y |-> y, movable |-> movable, radius |-> radius,
   layerIds |-> layerIds]

Segment(id, startId, endId, width, layerId, fixedLength, fixedOrientation) ==
  [segmentId |-> id, startPointId |-> startId, endPointId |-> endId,
   width |-> width, layerId |-> layerId, fixedLength |-> fixedLength,
   fixedOrientation |-> fixedOrientation]

Repulsion(strength, decay, mult, minSep) ==
  [strength |-> strength, exponentialDecay |-> decay,
   overlapMultiplier |-> mult, minSeparation |-> minSep]

Boundary(strength, decay, mult) ==
  [strength |-> strength, exponentialDecay |-> decay, overlapMultiplier |-> mult]

Correction(strength, decay) == [strength |-> strength, exponentialDecay |-> decay]

Schedule(maxSteps, stepSize, epsilonMove, maxMovePerStep, friction, relaxationSteps) ==
  [maxSteps |-> maxSteps, stepSize |-> stepSize, epsilonMove |-> epsilonMove,
   maxMovePerStep |-> maxMovePerStep, friction |-> friction,
   relaxationSteps |-> relaxationSteps]

Box(minX, minY, maxX, maxY) ==
  [minX |-> minX, minY |-> minY, maxX |-> maxX, maxY |-> maxY]

NoInteractions ==
  [segSegRepel |-> Repulsion(0, 0, ONE, 0),
   pointSegRepel |-> Repulsion(0, 0, ONE, 0),
   boundsKeepIn |-> Boundary(0, 0, ONE),
   fixedLengthCorrection |-> Correction(0, 0),
   fixedOrientationCorrection |-> Correction(0, 0)]

\* The problem of the README (src/README.md, lines 19-90)
ReadmeProblem ==
  [bounds |-> Box(0, 0, Num(100), Num(100)),
   boundaryPadding |-> Num(10),
   layerIds |-> <<"0", "1">>,
   points |-> <<Point("p1", 0, Num(20), FALSE, 0, <<"0">>),
                Point("p2", Num(50), Num(20), TRUE, 0, <<"0", "1">>)>>,
   segments |-> <<Segment("s1", "p1", "p2", Num(2), "0", FALSE, FALSE)>>,
   interactions |->
     [segSegRepel |-> Repulsion(Num(1), Frac(1, 2), Num(5), Num(10)),
      pointSegRepel |-> Repulsion(Num(1), Frac(1, 2), Num(5), Num(10)),
      boundsKeepIn |-> Boundary(Num(2), Num(1), Num(10)),
      fixedLengthCorrection |-> Correction(Num(1), 0),
      fixedOrientationCorrection |-> Correction(Num(5), 0)],
   solve |-> Schedule(300, Frac(1, 10), Frac(1, 100), Some(Num(2)),
                      Some(Frac(1, 10)), Some(100))]

\* Largest maxSteps of the problems that do not converge at once
MaxSteps == 5

\* One fixed and one movable point joined by a segment with both fixed flags
\* (the spring and the hinge of the specification's scenarios)
LinkProblem(lengthStrength, orientationStrength, boundsStrength) ==
  [bounds |-> Box(0, 0, Num(30), Num(30)),
   boundaryPadding |-> 0,
   layerIds |-> <<"0">>,
   points |-> <<Point("p1", 0, 0, FALSE, 0, <<"0">>),
                Point("p2", Num(10), 0, TRUE, 0, <<"0">>)>>,
   segments |-> <<Segment("s1", "p1", "p2", Num(1), "0", TRUE, TRUE)>>,
   interactions |->
     [NoInteractions EXCEPT
        !.boundsKeepIn = Boundary(boundsStrength, Num(1), Num(2)),
        !.fixedLengthCorrection = Correction(lengthStrength, 0),
        !.fixedOrientationCorrection = Correction(orientationStrength, 0)],
   solve |-> Schedule(MaxSteps, Frac(1, 2), Frac(1, 100), Undefined, Undefined,
                      Undefined)]

\* Two crossing segments a1-a2 and b1-b2 and their four points
CrossProblem(layersA, layerA, layersB, layerB, movableA, inter, sched) ==
  [bounds |-> Box(0, 0, Num(10), Num(10)),
   boundaryPadding |-> 0,
   layerIds |-> <<"0", "1">>,
   points |-> <<Point("a1", Num(2), Num(5), movableA, 0, layersA),
                Point("a2", Num(8), Num(5), movableA, 0, layersA),
                Point("b1", Num(5), Num(2), TRUE, Frac(1, 2), layersB),
                Point("b2", Num(5), Num(7), TRUE, Frac(1, 2), layersB)>>,
   segments |-> <<Segment("sA", "a1", "a2", Frac(2, 10), layerA, FALSE, FALSE),
                  Segment("sB", "b1", "b2", Frac(2, 10), layerB, TRUE, FALSE)>>,
   interactions |-> inter,
   solve |-> sched]

RepelInteractions ==
  [segSegRepel |-> Repulsion(Num(1), Frac(1, 2), Num(5), Num(1)),
   pointSegRepel |-> Repulsion(Num(1), Frac(1, 2), Num(2), Num(1)),
   boundsKeepIn |-> Boundary(Num(1), Num(1), Num(2)),
   fixedLengthCorrection |-> Correction(Num(1), 0),
   fixedOrientationCorrection |-> Correction(0, 0)]

PlainSchedule ==
  Schedule(MaxSteps, Frac(1, 10), Frac(1, 100), Undefined, Undefined, Undefined)

\* relaxationSteps = maxSteps / 2 ; a negative epsilonMove keeps it running
\* to the last step
FadeProblem ==
  CrossProblem(<<"0">>, "0", <<"0">>, "0", TRUE, RepelInteractions,
               [PlainSchedule EXCEPT !.maxSteps = 4,
                                     !.epsilonMove = -Frac(1, 100),
                                     !.friction = Some(Frac(1, 2)),
                                     !.relaxationSteps = Some(2)])

\* friction given as 1.0, with the fade over the second half of the steps
NoMomentumProblem ==
  CrossProblem(<<"0">>, "0", <<"0">>, "0", TRUE, RepelInteractions,
               [PlainSchedule EXCEPT !.maxSteps = 4,
                                     !.epsilonMove = -Frac(1, 100),
                                     !.friction = Some(ONE),
                                     !.relaxationSteps = Some(2)])

\* A long segment s1 = p2-p3 crossed in its middle by the short segment
\* s2 = p0-p1, on a grid whose cells are about a tenth of the bounds (decay 7
\* makes the influence distance about 1); s0 names an end point that does
\* not exist
GridProblem ==
  [bounds |-> Box(0, 0, Num(10), Num(10)),
   boundaryPadding |-> 0,
   layerIds |-> <<"0">>,
   points |-> <<Point("p0", Num(5), Frac(45, 10), TRUE, 0, <<"0">>),
                Point("p1", Num(5), Frac(55, 10), TRUE, 0, <<"0">>),
                Point("p2", Num(1), Num(5), TRUE, 0, <<"0">>),
                Point("p3", Num(9), Num(5), TRUE, 0, <<"0">>)>>,
   segments |-> <<Segment("s0", "p0", "nowhere", Frac(1, 10), "0", TRUE, TRUE),
                  Segment("s1", "p2", "p3", Frac(1, 10), "0", FALSE, FALSE),
                  Segment("s2", "p0", "p1", Frac(1, 10), "0", FALSE, FALSE)>>,
   interactions |->
     [NoInteractions EXCEPT
        !.segSegRepel = Repulsion(Num(1), Num(7), ONE, 0),
        !.pointSegRepel = Repulsion(Num(1), Num(7), ONE, 0),
        !.fixedLengthCorrection = Correction(Num(1), 0),
        !.fixedOrientationCorrection = Correction(Num(1), 0)],
   solve |-> [PlainSchedule EXCEPT !.maxSteps = 3]]

\* A bar of fixed length whose end e2 lies close to the fixed point q: the
\* repulsion of q shortens the bar in the first step and pushes e2 out of
\* the cells around q, which leaves the length correction alone
BarProblem(movableE1) ==
  [bounds |-> Box(0, 0, Num(10), Num(10)),
   boundaryPadding |-> 0,
   layerIds |-> <<"0">>,
   points |-> <<Point("e1", Num(2), Num(5), movableE1, 0, <<"0">>),
                Point("e2", Num(5), Num(5), TRUE, 0, <<"0">>),
                Point("q", Frac(53, 10), Num(5), FALSE, 0, <<"0">>)>>,
   segments |-> <<Segment("bar", "e1", "e2", Frac(1, 10), "0", TRUE, FALSE)>>,
   interactions |->
     [NoInteractions EXCEPT
        !.pointSegRepel = Repulsion(Num(30), Num(7), ONE, 0),
        !.fixedLengthCorrection = Correction(Num(1), 0)],
   solve |-> Schedule(MaxSteps, Frac(1, 2), Frac(1, 100), Undefined, Undefined,
                      Undefined)]

\* Layer lists in which "0" is named twice: of 3 names (bitmask encoding) and
\* of 31 names (set encoding)
FewLayers == <<"0", "1", "0">>
ManyLayers == FewLayers \o [k \in 1 .. 28 |-> ToString(100 + k)]

\* The crossing segments with points that name the unknown layer "zz" and a
\* segment that is on it
LayerProblem(ids, layerA) ==
  [CrossProblem(<<"0", "zz">>, layerA, <<"zz", "1">>, "zz", TRUE,
                NoInteractions, PlainSchedule)
     EXCEPT !.layerIds = ids]

Problems ==
  {ReadmeProblem,
   LinkProblem(Num(1), 0, 0),
   LinkProblem(0, Num(1), 0),
   LinkProblem(Num(1), 0, Num(4))}
  \cup
  \* layer isolation: different layers, disjoint memberships
  {CrossProblem(<<"0">>, "0", <<"1">>, "1", TRUE, RepelInteractions, PlainSchedule)}
  \cup
  \* one layer: every repulsion acts ; with and without a movement clamp
  {CrossProblem(<<"0">>, "0", <<"0">>, "0", mv, RepelInteractions,
                [PlainSchedule EXCEPT !.maxMovePerStep = mm]) :
     mv \in BOOLEAN, mm \in {Undefined, Some(0), Some(Frac(3, 10))}}
  \cup
  \* momentum and the final fade
  {CrossProblem(<<"0", "1">>, "0", <<"0">>, "0", TRUE, RepelInteractions,
                [PlainSchedule EXCEPT !.friction = Some(Frac(1, 2)),
                                      !.relaxationSteps = Some(2)])}
  \cup
  \* a length correction that acts alone
  {BarProblem(mv) : mv \in BOOLEAN}
  \cup
  \* layer names that repeat or are unknown, under both encodings
  {LayerProblem(ids, la) : ids \in {FewLayers, ManyLayers}, la \in {"0", "1"}}
  \cup
  \* a grid of many cells, with a segment that does not resolve
  {GridProblem}
  \cup
  \* the fade over the second half of the steps
  {FadeProblem, NoMomentumProblem}
  \cup
  \* no interaction enabled ; a negative epsilonMove never lets it converge
  {CrossProblem(<<"0">>, "0", <<"0">>, "0", TRUE, NoInteractions,
                [PlainSchedule EXCEPT !.epsilonMove = eps,
                                      !.friction = Some(Frac(1, 2)),
                                      !.maxMovePerStep = Some(Num(1))]) :
     eps \in {Frac(1, 100), -Frac(1, 100)}}

\* ------------------------------------------------------------------------
\* The solver as a state machine
\* ------------------------------------------------------------------------

\* public step() calls allowed past MAX_ITERATIONS
MaxExtraSteps == 1
\* direct _step() calls in one behaviour
MaxDirectSteps == 1
\* writes to the position objects by their holder before the first step
MaxPerturb == 1

\* What the holder may add to the position of which point
PerturbMoves ==
  {[p |-> 1, dx |-> Num(10), dy |-> 0],
   [p |-> 1, dx |-> -Num(1), dy |-> Num(1)]}

\* A constructor that sets the cap one step too high
ConstructorOneMore(inp) == inp.solve.maxSteps + 1

\* this.MAX_ITERATIONS = input.solve.maxSteps (line 160)
ConstructorMaxIterations(inp) == inp.solve.maxSteps

\* new ForceRelaxationSolver(problem): the constructor and the field
\* initialisers (lines 158-218)
Init ==
  /\ input \in Problems
  /\ position = [i \in 1 .. Len(input.points) |->
                   [x |-> input.points[i].x, y |-> input.points[i].y]]
  /\ MAX_ITERATIONS = ConstructorMaxIterations(input)
  /\ iterations = 0
  /\ solved = FALSE
  /\ failed = FALSE
  /\ error = Undefined
  /\ progress = 0
  /\ initialized = FALSE
  /\ cache = <<>>
  /\ restLen = <<>>
  /\ restAngle = <<>>
  /\ px = <<>>
  /\ py = <<>>
  /\ vx = <<>>
  /\ vy = <<>>
  /\ fx = <<>>
  /\ fy = <<>>
  /\ segGrid = <<>>
  /\ segCell = <<>>
  /\ segVisitedMark = <<>>
  /\ kernelLog = NoLog
  /\ graphics = Undefined
  /\ inSolve = FALSE
  /\ lastOp = "new"
  /\ perturbed = <<>>
  /\ wasSolved = FALSE
  /\ nDirect = 0

\* The fields of the engine set from an engine record
SetEngine(e) ==
  /\ initialized' = TRUE
  /\ cache' = e.cache
  /\ restLen' = e.restLen
  /\ restAngle' = e.restAngle
  /\ px' = e.px
  /\ py' = e.py
  /\ vx' = e.vx
  /\ vy' = e.vy
  /\ fx' = e.fx
  /\ fy' = e.fy
  /\ segVisitedMark' = e.segVisitedMark

\* _step after _ensureInitialized and the solved guard (lines 446-918), on
\* the engine record e with this.iterations = iters.  The constants of the
\* source are bound one after the other, in the order of its statements.
StepBody(e, iters) ==
  \E grid \in {RebuildSegmentGrid(e.cache, e.px, e.py)} :
  \E env \in {KernelEnv(e.cache, input, e.px, e.py, grid)} :
  \E acc1 \in {SegSegKernel(env, 0, ClearedForces(e.cache, e.segVisitedMark))} :
  \E acc2 \in {PointSegKernel(env, 0, acc1)} :
  \E bnd \in {BoundsForces(e.cache, input, e.px, e.py)} :
  \E fl \in {FixedLengthForces(e.cache, input, e.px, e.py, e.restLen)} :
  \E fo \in {FixedOrientationForces(e.cache, input, e.px, e.py, e.restAngle)} :
  \E f \in {Accumulate(acc2.fx, acc2.fy, bnd \o fl \o fo, 1)} :
  \E scale \in {RelaxationScale(input, MAX_ITERATIONS, iters)} :
  \E rf \in {RelaxForces(input, MAX_ITERATIONS, iters, f.fx, f.fy)} :
  \E pt \in {IntegratePoints(e, input, scale, rf)} :
  \E maxMove \in {MaxOver([i \in DOMAIN pt |-> pt[i].m], e.cache.pointsCount, 0)} :
    /\ SetEngine([cache |-> e.cache,
                  px |-> [i \in DOMAIN pt |-> pt[i].px],
                  py |-> [i \in DOMAIN pt |-> pt[i].py],
                  vx |-> [i \in DOMAIN pt |-> pt[i].vx],
                  vy |-> [i \in DOMAIN pt |-> pt[i].vy],
                  fx |-> rf.fx,
                  fy |-> rf.fy,
                  restLen |-> e.restLen,
                  restAngle |-> e.restAngle,
                  segVisitedMark |-> acc2.mark])
    /\ segGrid' = grid.segGrid
    /\ segCell' = grid.segCell
    /\ position' = WriteBack(position, pt)
    /\ kernelLog' = [ran |-> TRUE, pairs |-> acc2.log, fixedLen |-> fl,
                     fixedOri |-> fo, scale |-> scale, maxMove |-> maxMove,
                     clamped |-> {i \in DOMAIN pt : pt[i].clamped},
                     history |-> Append(kernelLog.history,
                                        [iter |-> iters, scale |-> scale,
                                         maxMove |-> maxMove]),
                     px |-> e.px, py |-> e.py]
    /\ progress' = Progress(input.solve.epsilonMove, maxMove)
    /\ solved' = (solved \/ Converged(maxMove, input.solve.epsilonMove))

\* _step without its solved guard
StepUnguarded(e1, iters) == StepBody(e1, iters)

\* _step (lines 442-919) on the engine record e1 that _ensureInitialized
\* leaves: nothing more once solved
StepGuarded(e1, iters) ==
  IF solved
  THEN /\ SetEngine(e1)
       /\ UNCHANGED <<segGrid, segCell, kernelLog, position, progress, solved>>
  ELSE StepBody(e1, iters)

\* A call of _step with this.iterations = iters
CallStep(iters) ==
  \E e1 \in {EnsureInitialized(initialized, Engine, input, position)} :
    StepGuarded(e1, iters)

\* BaseSolver.step(): nothing once solved, else count the iteration and
\* run _step
StepCall ==
  IF solved
  THEN UNCHANGED <<position, iterations, solved, progress, engineVars>>
  ELSE /\ iterations' = iterations + 1
       /\ CallStep(iterations + 1)

\* step() called by the holder of the solver
Step ==
  /\ ~inSolve
  /\ iterations < MAX_ITERATIONS + MaxExtraSteps
  /\ StepCall
  /\ lastOp' = "step"
  /\ wasSolved' = solved
  /\ graphics' = Undefined
  /\ UNCHANGED <<input, MAX_ITERATIONS, failed, error, inSolve, perturbed, nDirect>>

\* _step() called directly
DirectStep ==
  /\ ~inSolve
  /\ nDirect < MaxDirectSteps
  /\ CallStep(iterations)
  /\ nDirect' = nDirect + 1
  /\ lastOp' = "_step"
  /\ wasSolved' = solved
  /\ graphics' = Undefined
  /\ UNCHANGED <<input, MAX_ITERATIONS, iterations, failed, error, inSolve,
                 perturbed>>

\* solve() is entered
SolveBegin ==
  /\ ~inSolve
  /\ inSolve' = TRUE
  /\ lastOp' = "solve"
  /\ wasSolved' = solved
  /\ graphics' = Undefined
  /\ UNCHANGED <<input, position, solverVars, engineVars, perturbed, nDirect>>

\* solve(): one more step while neither solved nor at the iteration cap
SolveStep ==
  /\ inSolve
  /\ ~solved /\ iterations < MAX_ITERATIONS
  /\ StepCall
  /\ UNCHANGED <<input, MAX_ITERATIONS, failed, error, graphics, inSolve, lastOp,
                 perturbed, wasSolved, nDirect>>

\* solve() returns
SolveReturn ==
  /\ inSolve
  /\ solved \/ iterations >= MAX_ITERATIONS
  /\ inSolve' = FALSE
  /\ UNCHANGED <<input, position, solverVars, engineVars, graphics, lastOp,
                 perturbed, wasSolved, nDirect>>

\* visualize() (lines 921-931)
Visualize ==
  /\ ~inSolve
  /\ IF iterations = 0
     THEN /\ graphics' = Some(VisualizeInputProblem(input, position))
          /\ UNCHANGED engineVars
     ELSE /\ SetEngine(EnsureInitialized(initialized, Engine, input, position))
          /\ graphics' = Some(VisualizeForceRelaxationSolver(input, position))
          /\ UNCHANGED <<segGrid, segCell, kernelLog>>
  /\ lastOp' = "visualize"
  /\ wasSolved' = solved
  /\ UNCHANGED <<input, position, solverVars, inSolve, perturbed, nDirect>>

\* The holder of the problem record writes a position object before the
\* first step (between steps it must not) ; the point stays inside the bounds
Perturb ==
  /\ ~inSolve
  /\ ~initialized /\ iterations = 0
  /\ Len(perturbed) < MaxPerturb
  /\ \E mv \in PerturbMoves :
       /\ mv.p + 1 \in DOMAIN position
       /\ position[mv.p + 1].x + mv.dx \in input.bounds.minX .. input.bounds.maxX
       /\ position[mv.p + 1].y + mv.dy \in input.bounds.minY .. input.bounds.maxY
       /\ position' = [position EXCEPT ![mv.p + 1] =
                         [x |-> @.x + mv.dx, y |-> @.y + mv.dy]]
       /\ perturbed' = Append(perturbed, mv)
  /\ lastOp' = "perturb"
  /\ wasSolved' = solved
  /\ graphics' = Undefined
  /\ UNCHANGED <<input, solverVars, engineVars, inSolve, nDirect>>

Next ==
  \/ Step
  \/ DirectStep
  \/ SolveBegin
  \/ SolveStep
  \/ SolveReturn
  \/ Visualize
  \/ Perturb

\* What a step of the loop of solve() and its return do to iterations and to
\* inSolve: SolveStep is the one step of Next that raises iterations inside
\* solve(), SolveReturn the one step that leaves it
SolveAdvances ==
  /\ inSolve
  /\ ~solved /\ iterations < MAX_ITERATIONS
  /\ iterations' = iterations + 1

SolveLeaves ==
  /\ inSolve
  /\ solved \/ iterations >= MAX_ITERATIONS
  /\ inSolve' = FALSE

\* solve() is a loop of the running program: once entered it goes on until
\* it returns
FairSpec ==
  /\ Init /\ [][Next]_vars
  /\ WF_iterations(SolveAdvances) /\ WF_inSolve(SolveLeaves)

Spec == Init /\ [][Next]_vars

\* ------------------------------------------------------------------------
\* Properties
\* ------------------------------------------------------------------------

\* The points (1-based, as in input.points) by their movable flag
NonMovable == {i \in 1 .. Len(input.points) : ~input.points[i].movable}
Movable == {i \in 1 .. Len(input.points) : input.points[i].movable}

\* The squared length, at scale ONE^2, of what a transition adds to the
\* position object of point i
Displacement2(i) ==
  SqSum(position'[i].x - position[i].x, position'[i].y - position[i].y)

\* The displacement of point i is at most maxMovePerStep.  The quotient
\* maxMovePerStep / m and the square root m are each rounded to the
\* resolution, which can leave the clamped velocity up to one unit longer.
WithinMaxMove(i) ==
  Displacement2(i) <= (input.solve.maxMovePerStep[1] + 1)
                        * (input.solve.maxMovePerStep[1] + 1)

AllStrengthsZero ==
  /\ input.interactions.segSegRepel.strength = 0
  /\ input.interactions.pointSegRepel.strength = 0
  /\ input.interactions.boundsKeepIn.strength = 0
  /\ input.interactions.fixedLengthCorrection.strength = 0
  /\ input.interactions.fixedOrientationCorrection.strength = 0

\* C1: once solved is true, a further call of step() or of _step() changes
\* nothing: the internal positions px/py, the position objects, the
\* velocities, iterations and progress keep their values and solved stays
\* true.
C1_StepAfterSolved ==
  [][(solved /\ lastOp' \in {"step", "_step"}) =>
       /\ px' = px /\ py' = py /\ position' = position
       /\ vx' = vx /\ vy' = vy
       /\ iterations' = iterations /\ progress' = progress
       /\ solved']_vars

\* _step() has been called directly on a solver that was already solved
C1_Witness == wasSolved /\ solved /\ lastOp = "_step" /\ iterations >= 1

\* C2: whatever the call, the position of a point with movable = false is
\* after it what it was before it, in the position object and in px/py,
\* whatever force the kernels put on the point.
C2_FixedPointsStay ==
  [][lastOp' # "perturb" =>
       \A i \in NonMovable :
         /\ position'[i] = position[i]
         /\ initialized' =>
              /\ px'[i - 1] = position[i].x
              /\ py'[i - 1] = position[i].y]_vars

\* a step has left a force on a point that is not movable
C2_Witness ==
  /\ kernelLog.ran /\ iterations >= 1
  /\ \E i \in NonMovable : fx[i - 1] # 0 \/ fy[i - 1] # 0

\* C3 as stated: whenever maxMovePerStep is given, 0 included, no movable
\* point is displaced by more than maxMovePerStep in one step.
C3_ClampAnyValue ==
  [][(lastOp' # "perturb" /\ input.solve.maxMovePerStep # Undefined) =>
       \A i \in Movable : WithinMaxMove(i)]_vars

\* C3: whenever maxMovePerStep is given and positive, no movable point is
\* displaced by more than maxMovePerStep in one step (a value of 0 switches
\* the clamp off).
C3_ClampPositive ==
  [][(/\ lastOp' # "perturb"
      /\ input.solve.maxMovePerStep # Undefined
      /\ input.solve.maxMovePerStep[1] > 0) =>
       \A i \in Movable : WithinMaxMove(i)]_vars

\* the clamp has cut the velocity of a point in the last step
C3_Witness ==
  /\ kernelLog.ran /\ kernelLog.clamped # {}
  /\ input.solve.maxMovePerStep # Undefined
  /\ kernelLog.maxMove = input.solve.maxMovePerStep[1]

\* C4: when the strength of all five interactions is 0, no call moves any
\* point, whatever the geometry, the friction and maxSteps.
C4_NoStrengthNoMovement ==
  [][(AllStrengthsZero /\ lastOp' # "perturb") =>
       /\ position' = position
       /\ initialized => (px' = px /\ py' = py)]_vars

\* solve() has run steps on a problem without strengths, and the kernels of
\* the last one took a pair through their filters
C4_Witness ==
  /\ AllStrengthsZero /\ inSolve /\ iterations >= 2 /\ kernelLog.ran
  /\ \E k \in DOMAIN kernelLog.pairs : kernelLog.pairs[k].passed

\* C6: solve() terminates; it steps only while solved is false and
\* iterations is below maxSteps, so no step of it takes iterations past
\* maxSteps and it returns with solved true or iterations at maxSteps; on
\* the well-formed problem of the README it returns solved, without error.
C6_SolveTerminates ==
  /\ [][(inSolve /\ iterations' # iterations) =>
          iterations' <= input.solve.maxSteps]_vars
  /\ [][(inSolve /\ ~inSolve') =>
          (solved \/ iterations >= input.solve.maxSteps)]_vars
  /\ []((input = ReadmeProblem /\ perturbed = <<>> /\ lastOp = "solve"
          /\ ~inSolve) => (solved /\ error = Undefined /\ ~failed))
  /\ (inSolve ~> ~inSolve)

\* solve() has returned at the cap from a run that did not converge
C6_Witness ==
  /\ lastOp = "solve" /\ ~inSolve /\ ~solved
  /\ iterations = input.solve.maxSteps

\* The sum of the x and of the y components of a contribution
RECURSIVE SumX(_, _)
SumX(contrib, k) ==
  IF k > Len(contrib) THEN 0 ELSE contrib[k].fx + SumX(contrib, k + 1)
RECURSIVE SumY(_, _)
SumY(contrib, k) ==
  IF k > Len(contrib) THEN 0 ELSE contrib[k].fy + SumY(contrib, k + 1)

\* C7: in every step, what one segment-segment pair or one point-segment
\* pair adds to the force buffer sums to zero over the points, in x and in
\* y, up to one unit of the resolution (each share of the split is rounded).
C7_PairForcesBalance ==
  \A k \in DOMAIN kernelLog.pairs :
    /\ Abs(SumX(kernelLog.pairs[k].contrib, 1)) <= 1
    /\ Abs(SumY(kernelLog.pairs[k].contrib, 1)) <= 1

\* the last step added a force for a segment-segment pair and for a
\* point-segment pair
C7_Witness ==
  /\ \E k \in DOMAIN kernelLog.pairs :
       /\ kernelLog.pairs[k].kernel = "segSeg"
       /\ \E n \in DOMAIN kernelLog.pairs[k].contrib :
            kernelLog.pairs[k].contrib[n].fy # 0
  /\ \E k \in DOMAIN kernelLog.pairs :
       /\ kernelLog.pairs[k].kernel = "pointSeg"
       /\ \E n \in DOMAIN kernelLog.pairs[k].contrib :
            kernelLog.pairs[k].contrib[n].fx # 0

\* The spring of the scenario: p1 = (0,0) fixed, p2 = (10,0) movable, only
\* the fixed-length correction has a strength
SpringProblem == LinkProblem(Num(1), 0, 0)

\* |p2 - p1| in the position objects
SpringLength ==
  SqrtSq(SqSum(position[2].x - position[1].x, position[2].y - position[1].y))

\* C8: the solver of the spring problem, p2 then moved to (20,0), converges
\* with |p2 - p1| within 1% of 10.
C8_SpringRestored ==
  (/\ input = SpringProblem
   /\ perturbed = <<[p |-> 1, dx |-> Num(10), dy |-> 0]>>
   /\ solved)
    => Abs(SpringLength - Num(10)) <= Frac(1, 10)

\* The layer names of point i (0-based)
PointLayers(i) ==
  {PointAt(input.points, i).layerIds[n] :
     n \in DOMAIN PointAt(input.points, i).layerIds}

\* C9: no step adds a repulsion force between two segments of different
\* layers, nor between a point and a segment whose layer is not one of the
\* point's layers, whatever the strengths and even when the segments cross.
C9_LayerIsolation ==
  \A k \in DOMAIN kernelLog.pairs :
    /\ (/\ kernelLog.pairs[k].kernel = "segSeg"
        /\ SegAt(input.segments, kernelLog.pairs[k].q).layerId
             # SegAt(input.segments, kernelLog.pairs[k].s).layerId)
         => kernelLog.pairs[k].contrib = <<>>
    /\ (/\ kernelLog.pairs[k].kernel = "pointSeg"
        /\ SegAt(input.segments, kernelLog.pairs[k].s).layerId
             \notin PointLayers(kernelLog.pairs[k].q))
         => kernelLog.pairs[k].contrib = <<>>

\* the last step met two segments of different layers, and a point with a
\* segment of a layer the point is not on, with both repulsions switched on
C9_Witness ==
  /\ input.interactions.segSegRepel.strength > 0
  /\ input.interactions.pointSegRepel.strength > 0
  /\ \E k \in DOMAIN kernelLog.pairs :
       /\ kernelLog.pairs[k].kernel = "segSeg"
       /\ SegAt(input.segments, kernelLog.pairs[k].q).layerId
            # SegAt(input.segments, kernelLog.pairs[k].s).layerId
  /\ \E k \in DOMAIN kernelLog.pairs :
       /\ kernelLog.pairs[k].kernel = "pointSeg"
       /\ SegAt(input.segments, kernelLog.pairs[k].s).layerId
            \notin PointLayers(kernelLog.pairs[k].q)

\* C10: restLen and restAngle are written by the one initialisation and by
\* nothing before or after it: no step, visualize call or position update
\* changes them once initialized is set.
C10_RestWrittenOnce ==
  /\ [](~initialized => (restLen = <<>> /\ restAngle = <<>>))
  /\ [][initialized =>
          (initialized' /\ restLen' = restLen /\ restAngle' = restAngle)]_vars

\* steps have moved the ends of a segment away from its rest length
C10_Witness ==
  /\ initialized /\ iterations >= 2
  /\ \E i \in DOMAIN restLen :
       /\ cache.segA[i] >= 0 /\ cache.segB[i] >= 0
       /\ restLen[i] # SqrtSq(SqSum(px[cache.segB[i]] - px[cache.segA[i]],
                                    py[cache.segB[i]] - py[cache.segA[i]]))

\* A transition in which _step is called: by step(), directly, or by the
\* loop of solve()
StepTaken ==
  \/ lastOp' \in {"step", "_step"}
  \/ inSolve /\ iterations' = iterations + 1

\* C11: the engine only moves uninitialized -> running -> solved.  The
\* constructor leaves it uninitialized and unsolved; it is initialized by a
\* call of _step and by nothing else, once, and what the initialisation
\* wrote is never written again; solved turns true exactly in a step whose
\* maxMove is at most epsilonMove; solved never turns false again.
C11_Lifecycle ==
  /\ ~initialized /\ ~solved
  /\ [](~initialized => (~solved /\ iterations = 0 /\ ~kernelLog.ran))
  /\ [][/\ initialized => (initialized' /\ cache' = cache)
        /\ (~initialized /\ initialized') => StepTaken
        /\ (~initialized /\ StepTaken) => initialized'
        /\ solved => solved'
        /\ (~solved /\ solved') =>
             (/\ StepTaken /\ kernelLog'.ran
              /\ kernelLog'.maxMove <= input.solve.epsilonMove)
        /\ (~solved /\ StepTaken) =>
             (solved' <=> kernelLog'.maxMove <= input.solve.epsilonMove)]_vars

\* a solver that ran several steps before it converged, looked at afterwards
C11_Witness ==
  /\ initialized /\ solved /\ iterations >= 2
  /\ lastOp = "visualize"
  /\ kernelLog.maxMove <= input.solve.epsilonMove

\* relaxationSteps of the problem, 0 when it is left out
RelaxationSteps ==
  IF input.solve.relaxationSteps = Undefined THEN 0
  ELSE input.solve.relaxationSteps[1]

\* The scale the claim gives for the step with this.iterations = iter
FadeScale(iter) ==
  IF input.solve.maxSteps - iter > RelaxationSteps THEN ONE
  ELSE Div(Num(input.solve.maxSteps - iter), Num(RelaxationSteps))

\* C12: with relaxationSteps > 0 the scale of a step is 1 while
\* maxSteps - iterations > relaxationSteps and (maxSteps - iterations) /
\* relaxationSteps afterwards; over the steps solve() can run (iterations
\* 1 .. maxSteps) it never rises and stays within [0, 1]; with
\* relaxationSteps = maxSteps / 2 the step that ends solve() has a maxMove
\* of at most that of the midpoint step.
C12_RelaxationFade ==
  /\ [](RelaxationSteps > 0 =>
          \A k \in DOMAIN kernelLog.history :
            /\ kernelLog.history[k].scale = FadeScale(kernelLog.history[k].iter)
            /\ kernelLog.history[k].iter \in 1 .. input.solve.maxSteps =>
                 /\ kernelLog.history[k].scale \in 0 .. ONE
                 /\ \A j \in 1 .. k :
                      kernelLog.history[j].iter <= kernelLog.history[k].iter =>
                        kernelLog.history[k].scale <= kernelLog.history[j].scale)
  /\ [][(/\ inSolve /\ iterations' = iterations + 1
         /\ solved' \/ iterations' >= input.solve.maxSteps
         /\ RelaxationSteps > 0
         /\ 2 * RelaxationSteps = input.solve.maxSteps) =>
          \A k \in DOMAIN kernelLog'.history :
            kernelLog'.history[k].iter = RelaxationSteps =>
              kernelLog'.maxMove <= kernelLog'.history[k].maxMove]_vars

\* solve() has run its last step on the problem with relaxationSteps =
\* maxSteps / 2: the midpoint step moved points at full scale, the scale then
\* fell to 0
C12_Witness ==
  /\ inSolve /\ iterations = input.solve.maxSteps
  /\ RelaxationSteps > 0 /\ 2 * RelaxationSteps = input.solve.maxSteps
  /\ Len(kernelLog.history) = input.solve.maxSteps
  /\ kernelLog.scale = 0
  /\ \E k \in DOMAIN kernelLog.history :
       /\ kernelLog.history[k].iter = RelaxationSteps
       /\ kernelLog.history[k].scale = ONE
       /\ kernelLog.history[k].maxMove > kernelLog.maxMove
  /\ \E k \in DOMAIN kernelLog.history :
       kernelLog.history[k].scale \in 1 .. ONE - 1

\* Segments i and j (0-based) are listed in a common cell of the grid
ShareCell(i, j) ==
  /\ Max2(segCell[i].minX, segCell[j].minX) <= Min2(segCell[i].maxX, segCell[j].maxX)
  /\ Max2(segCell[i].minY, segCell[j].minY) <= Min2(segCell[i].maxY, segCell[j].maxY)

\* Segment i has both endpoints and a known layer
Resolved(i) ==
  cache.segA[i] >= 0 /\ cache.segB[i] >= 0 /\ cache.segLayerIdx[i] >= 0

\* Segment i has an endpoint that can move
HasMovableEnd(i) ==
  cache.movable[cache.segA[i]] = 1 \/ cache.movable[cache.segB[i]] = 1

\* The segments i and j have an endpoint in common
ShareEndpoint(i, j) ==
  {cache.segA[i], cache.segB[i]} \cap {cache.segA[j], cache.segB[j]} # {}

\* The last step took the segment pair (i, j) to its force computation
SegSegComputed(i, j) ==
  \E k \in DOMAIN kernelLog.pairs :
    /\ kernelLog.pairs[k].kernel = "segSeg"
    /\ kernelLog.pairs[k].q = i /\ kernelLog.pairs[k].s = j
    /\ kernelLog.pairs[k].passed

\* C13, its particular case: a same-layer pair (i, j), j > i, in a common
\* cell, without a common endpoint, where both endpoints of i are fixed and j
\* has a movable endpoint, is taken to the force computation by every step.
C13_FixedLowerSegmentPair ==
  kernelLog.ran =>
    \A i \in DOMAIN segCell : \A j \in DOMAIN segCell :
      (/\ i < j /\ Resolved(i) /\ Resolved(j)
       /\ cache.segLayerIdx[i] = cache.segLayerIdx[j]
       /\ ~ShareEndpoint(i, j)
       /\ ~HasMovableEnd(i) /\ HasMovableEnd(j)
       /\ ShareCell(i, j))
        => SegSegComputed(i, j)

\* Segment si is listed in one of the 3x3 cells around the cell that point pi
\* was in when the last step ran its kernels
InNeighbourhood(pi, si) ==
  \E n \in DOMAIN PointCells(cache, kernelLog.px, kernelLog.py, pi) :
    \E key \in {CellKey(PointCells(cache, kernelLog.px, kernelLog.py, pi)[n][1],
                        PointCells(cache, kernelLog.px, kernelLog.py, pi)[n][2])} :
      /\ key \in DOMAIN segGrid
      /\ \E m \in DOMAIN segGrid[key] : segGrid[key][m] = si

\* The filters of the claim for point pi and segment si, from the problem
\* record: resolved, pi not an endpoint, layer compatible, something movable
PointSegEligible(pi, si) ==
  /\ cache.segA[si] >= 0 /\ cache.segB[si] >= 0
  /\ pi # cache.segA[si] /\ pi # cache.segB[si]
  /\ \E n \in DOMAIN input.layerIds :
       input.layerIds[n] = SegAt(input.segments, si).layerId
  /\ SegAt(input.segments, si).layerId \in PointLayers(pi)
  /\ \/ PointAt(input.points, pi).movable
     \/ PointAt(input.points, cache.segA[si]).movable
     \/ PointAt(input.points, cache.segB[si]).movable

\* The records of the last step for point pi and segment si that went to the
\* force computation
PointSegComputed(pi, si) ==
  {k \in DOMAIN kernelLog.pairs :
     /\ kernelLog.pairs[k].kernel = "pointSeg"
     /\ kernelLog.pairs[k].q = pi /\ kernelLog.pairs[k].s = si
     /\ kernelLog.pairs[k].passed}

\* C14: in every step, for every point pi and every segment si of its 3x3
\* neighbourhood that passes the filters, the point-segment contribution of
\* (pi, si) is evaluated exactly once.
C14_PointSegOnce ==
  kernelLog.ran =>
    \A pi \in Idx(cache.pointsCount) : \A si \in Idx(cache.segmentsCount) :
      (PointSegEligible(pi, si) /\ InNeighbourhood(pi, si))
        => Cardinality(PointSegComputed(pi, si)) = 1

\* The records of the last step in which the segment-segment query of i
\* reached j past the visited mark
SegSegConsidered(i, j) ==
  {k \in DOMAIN kernelLog.pairs :
     /\ kernelLog.pairs[k].kernel = "segSeg"
     /\ kernelLog.pairs[k].q = i /\ kernelLog.pairs[k].s = j}

\* C15: in every step, a pair of segments (i, j), j > i, listed in a common
\* cell is considered by the segment-segment kernel exactly once (stated for
\* the segments i that the outer loop queries: resolved, of a known layer,
\* with a movable endpoint).
C15_SegSegOnce ==
  kernelLog.ran =>
    \A i \in DOMAIN segCell : \A j \in DOMAIN segCell :
      (/\ i < j /\ Resolved(i) /\ HasMovableEnd(i)
       /\ cache.segA[j] >= 0 /\ cache.segB[j] >= 0
       /\ ShareCell(i, j))
        => Cardinality(SegSegConsidered(i, j)) = 1

\* Segments i and j are both in the list of one cell of the grid
ListedTogether(i, j) ==
  \E key \in DOMAIN segGrid :
    /\ \E m \in DOMAIN segGrid[key] : segGrid[key][m] = i
    /\ \E m \in DOMAIN segGrid[key] : segGrid[key][m] = j

\* Both ends of segment i resolve to points
EndsResolved(i) == cache.segA[i] >= 0 /\ cache.segB[i] >= 0

\* The squared distance, at scale ONE^2, of the segments i and j and of point
\* pi and segment si at the positions the last rebuild read
SegSegDistSq(i, j) ==
  closestPointsOnSegments(
    kernelLog.px[cache.segA[i]], kernelLog.py[cache.segA[i]],
    kernelLog.px[cache.segB[i]], kernelLog.py[cache.segB[i]],
    kernelLog.px[cache.segA[j]], kernelLog.py[cache.segA[j]],
    kernelLog.px[cache.segB[j]], kernelLog.py[cache.segB[j]]).distSq

PointSegDistSq(pi, si) ==
  closestPointOnSegment(
    kernelLog.px[pi], kernelLog.py[pi],
    kernelLog.px[cache.segA[si]], kernelLog.py[cache.segA[si]],
    kernelLog.px[cache.segB[si]], kernelLog.py[cache.segB[si]]).distSq

InfluenceSq == cache.globalInfluence * cache.globalInfluence

\* C16: after each rebuild of the grid, two resolved segments at a distance
\* of at most globalInfluence are in the list of a common cell, and a
\* resolved segment at most globalInfluence away from a point is in the list
\* of one of the 3x3 cells around the point's cell.
C16_BroadphaseComplete ==
  kernelLog.ran =>
    /\ \A i \in Idx(cache.segmentsCount) : \A j \in Idx(cache.segmentsCount) :
         (/\ i < j /\ EndsResolved(i) /\ EndsResolved(j)
          /\ SegSegDistSq(i, j) <= InfluenceSq)
           => ListedTogether(i, j)
    /\ \A pi \in Idx(cache.pointsCount) : \A si \in Idx(cache.segmentsCount) :
         (EndsResolved(si) /\ PointSegDistSq(pi, si) <= InfluenceSq)
           => InNeighbourhood(pi, si)

\* a grid of many cells: a pair of segments and a point and a segment within
\* the influence distance, and a point whose neighbourhood leaves a segment
\* out
C16_Witness ==
  /\ kernelLog.ran
  /\ \E i \in Idx(cache.segmentsCount) : \E j \in Idx(cache.segmentsCount) :
       /\ i < j /\ EndsResolved(i) /\ EndsResolved(j)
       /\ SegSegDistSq(i, j) <= InfluenceSq
       /\ segCell[i] # segCell[j]
  /\ \E pi \in Idx(cache.pointsCount) : \E si \in Idx(cache.segmentsCount) :
       /\ EndsResolved(si) /\ pi # cache.segA[si] /\ pi # cache.segB[si]
       /\ PointSegDistSq(pi, si) <= InfluenceSq
  /\ \E pi \in Idx(cache.pointsCount) : \E si \in Idx(cache.segmentsCount) :
       EndsResolved(si) /\ ~InNeighbourhood(pi, si)

\* The pointIds of the problem
PointIds == {input.points[n].pointId : n \in DOMAIN input.points}

\* Segment si of the problem names a start or an end point that is no point
Unresolved(si) ==
  \/ SegAt(input.segments, si).startPointId \notin PointIds
  \/ SegAt(input.segments, si).endPointId \notin PointIds

\* C17: a segment whose startPointId or endPointId is no point is inert in
\* every step: it is in the list of no cell, neither repulsion kernel meets
\* it as a query or as a candidate, the fixed-length and the
\* fixed-orientation kernel add nothing for it, and the solver records no
\* failure.
C17_UnresolvedInert ==
  kernelLog.ran =>
    \A si \in Idx(Len(input.segments)) :
      Unresolved(si) =>
        /\ \A key \in DOMAIN segGrid :
             \A m \in DOMAIN segGrid[key] : segGrid[key][m] # si
        /\ \A k \in DOMAIN kernelLog.pairs :
             /\ kernelLog.pairs[k].s # si
             /\ kernelLog.pairs[k].kernel = "segSeg" => kernelLog.pairs[k].q # si
        /\ FixedLengthContribution(cache, input, kernelLog.px, kernelLog.py,
                                   restLen, si) = <<>>
        /\ FixedOrientationContribution(cache, input, kernelLog.px,
                                        kernelLog.py, restAngle, si) = <<>>
        /\ ~failed /\ error = Undefined

\* steps have run on a problem with an unresolved segment that carries both
\* fixed flags, next to segments that did get forces
C17_Witness ==
  /\ kernelLog.ran /\ iterations >= 2
  /\ input.interactions.fixedLengthCorrection.strength > 0
  /\ input.interactions.fixedOrientationCorrection.strength > 0
  /\ \E si \in Idx(Len(input.segments)) :
       /\ Unresolved(si)
       /\ SegAt(input.segments, si).fixedLength
       /\ SegAt(input.segments, si).fixedOrientation
  /\ \E k \in DOMAIN kernelLog.pairs : kernelLog.pairs[k].contrib # <<>>

\* The layer names of the problem
KnownLayers == {input.layerIds[n] : n \in DOMAIN input.layerIds}

\* The cache of the same problem under the other encoding: its layer list
\* padded beyond 30 names, or cut back to the names in front of the padding
OtherEncoding ==
  InitCache([input EXCEPT !.layerIds =
               IF input.layerIds = FewLayers THEN ManyLayers ELSE FewLayers],
            position).cache

\* C18: under the bitmask and under the set encoding, _pointOnLayer answers
\* for every point and segment whether the segment's layer is a known layer
\* and one of the point's layerIds; the two encodings of one problem give
\* the same answers.
C18_EncodingsAgree ==
  initialized =>
    \A pi \in Idx(cache.pointsCount) : \A si \in Idx(cache.segmentsCount) :
      /\ PointOnLayer(cache, pi, cache.segLayerIdx[si],
                      SegAt(input.segments, si).layerId)
           <=> (/\ SegAt(input.segments, si).layerId \in KnownLayers
                /\ SegAt(input.segments, si).layerId \in PointLayers(pi))
      /\ input.layerIds \in {FewLayers, ManyLayers} =>
           (PointOnLayer(cache, pi, cache.segLayerIdx[si],
                         SegAt(input.segments, si).layerId)
              <=> PointOnLayer(OtherEncoding, pi, OtherEncoding.segLayerIdx[si],
                               SegAt(input.segments, si).layerId))

\* the set encoding in use, on a layer list with a repeated name: a point on
\* the layer of a segment, and a point that names the unknown layer of a
\* segment
C18_Witness ==
  /\ initialized /\ ~cache.useLayerBitmask
  /\ OtherEncoding.useLayerBitmask
  /\ \E m \in DOMAIN input.layerIds : \E n \in DOMAIN input.layerIds :
       m # n /\ input.layerIds[m] = input.layerIds[n]
  /\ \E pi \in Idx(cache.pointsCount) : \E si \in Idx(cache.segmentsCount) :
       PointOnLayer(cache, pi, cache.segLayerIdx[si],
                    SegAt(input.segments, si).layerId)
  /\ \E pi \in Idx(cache.pointsCount) : \E si \in Idx(cache.segmentsCount) :
       /\ SegAt(input.segments, si).layerId \notin KnownLayers
       /\ SegAt(input.segments, si).layerId \in PointLayers(pi)

\* The direction from point i to point j of the current positions, as
\* Math.atan2 gives it (the orientation kernel's reading, line 820)
Direction(i, j) ==
  MathAtan2(position[j].y - position[i].y, position[j].x - position[i].x)

\* The angles between two directions of the current positions, and the same
\* one turn up and one turn down
Angles ==
  {Direction(k, l) - Direction(i, j) + n * TAU :
     i \in DOMAIN position, j \in DOMAIN position,
     k \in DOMAIN position, l \in DOMAIN position, n \in {-1, 0, 1}}

\* C19: wrapToPi(a) is, for every angle a, in the half-open interval
\* (-pi, pi] and differs from a by a multiple of 2 pi; pi, and pi plus a
\* multiple of 2 pi, wrap to pi and not to -pi.
C19_WrapHalfOpenAbove ==
  \A a \in Angles :
    /\ wrapToPi(a) > 0 - PI
    /\ wrapToPi(a) <= PI
    /\ (wrapToPi(a) - a) % TAU = 0
    /\ (a - PI) % TAU = 0 => wrapToPi(a) = PI

\* The length of segment si in the positions ppx, ppy, and what the
\* fixed-length kernel of the last step added for it
SegLength(ppx, ppy, si) ==
  SqrtSq(SqSum(ppx[cache.segB[si]] - ppx[cache.segA[si]],
               ppy[cache.segB[si]] - ppy[cache.segA[si]]))
LengthForces(si) ==
  FixedLengthContribution(cache, input, kernelLog.px, kernelLog.py, restLen, si)

\* Segments the fixed-length kernel of the last step worked on: fixedLength,
\* both ends resolved, an end movable, longer than EPS
LengthCorrected(si) ==
  /\ cache.segFixedLen[si] = 1
  /\ Resolved(si) /\ HasMovableEnd(si)
  /\ SegLength(kernelLog.px, kernelLog.py, si) > EPS

\* Some addition in cs is not zero
NonZero(cs) == \E k \in DOMAIN cs : cs[k].fx # 0 \/ cs[k].fy # 0

\* The last step had no force but those of the length correction, carried no
\* velocity over, was not faded, and its step was small: an end moves by no
\* more than the length error
LengthCorrectionAlone ==
  /\ ~NonZero(BoundsForces(cache, input, kernelLog.px, kernelLog.py))
  /\ ~NonZero(kernelLog.fixedOri)
  /\ \A k \in DOMAIN kernelLog.pairs : ~NonZero(kernelLog.pairs[k].contrib)
  /\ kernelLog.scale = ONE
  /\ EffectiveFriction(input, kernelLog.scale) = ONE
  /\ input.interactions.fixedLengthCorrection.strength > 0
  /\ input.interactions.fixedLengthCorrection.exponentialDecay = 0
  /\ Mul(input.interactions.fixedLengthCorrection.strength,
         input.solve.stepSize) <= ONE

\* C20: for every fixedLength segment with a movable end and a length above
\* EPS, the fixed-length kernel adds to its two ends forces that are equal
\* and opposite and lie along the segment axis; with a positive strength
\* they point toward each other when the segment is longer than its rest
\* length and away from each other when it is shorter, and nothing is added
\* when the length is the rest length; in a step where this correction acts
\* alone with a small step size the length error does not grow.
C20_LengthCorrection ==
  kernelLog.ran =>
    \A si \in Idx(cache.segmentsCount) :
      LengthCorrected(si) =>
        \E a \in {cache.segA[si]} : \E b \in {cache.segB[si]} :
        \E dx \in {kernelLog.px[b] - kernelLog.px[a]} :
        \E dy \in {kernelLog.py[b] - kernelLog.py[a]} :
        \E err \in {SegLength(kernelLog.px, kernelLog.py, si) - restLen[si]} :
        \E f \in {LengthForces(si)} :
          /\ err = 0 => f = <<>>
          /\ err # 0 =>
               /\ Len(f) = 2 /\ f[1].p = a /\ f[2].p = b
               /\ f[2].fx = 0 - f[1].fx /\ f[2].fy = 0 - f[1].fy
               \* along the axis, up to the rounding of the two products
               /\ Abs(f[1].fx * dy - f[1].fy * dx)
                    <= ((Abs(f[1].fx) + Abs(f[1].fy)) \div ONE + 2)
                         * (Abs(dx) + Abs(dy))
               /\ input.interactions.fixedLengthCorrection.strength > 0 =>
                    /\ err > 0 => f[1].fx * dx + f[1].fy * dy >= 0
                    /\ err < 0 => f[1].fx * dx + f[1].fy * dy <= 0
               /\ input.interactions.fixedLengthCorrection.strength = 0 =>
                    ~NonZero(f)
          /\ LengthCorrectionAlone =>
               Abs(SegLength(px, py, si) - restLen[si]) <= Abs(err) + 1

\* a step in which the length correction acted alone on a bar shorter than
\* its rest length: it pushed the ends apart and the error shrank
C20_Witness ==
  /\ kernelLog.ran /\ lastOp # "visualize"
  /\ LengthCorrectionAlone
  /\ \E si \in Idx(cache.segmentsCount) :
       /\ LengthCorrected(si)
       /\ SegLength(kernelLog.px, kernelLog.py, si) < restLen[si]
       /\ NonZero(LengthForces(si))
       /\ LengthForces(si)[2].fx > 0
       /\ Abs(SegLength(px, py, si) - restLen[si])
            < restLen[si] - SegLength(kernelLog.px, kernelLog.py, si)

\* friction is omitted or 1.0
FrictionOne ==
  input.solve.friction = Undefined \/ input.solve.friction = Some(ONE)

\* The movement clamp applies to a velocity of magnitude m
ClampApplies(m) ==
  /\ input.solve.maxMovePerStep # Undefined
  /\ input.solve.maxMovePerStep[1] > 0
  /\ m > input.solve.maxMovePerStep[1]

\* The displacement of point i in the last step is force times stepSize,
\* cut down to maxMovePerStep where that is longer
MovedByForce(i, nvx, nvy, m) ==
  IF ClampApplies(m)
  THEN /\ px[i] - kernelLog.px[i]
            = Mul(nvx, Div(input.solve.maxMovePerStep[1], m))
       /\ py[i] - kernelLog.py[i]
            = Mul(nvy, Div(input.solve.maxMovePerStep[1], m))
  ELSE /\ px[i] - kernelLog.px[i] = nvx
       /\ py[i] - kernelLog.py[i] = nvy

\* C21: with friction omitted or 1.0 every movable point is displaced, in
\* every step, by its force of that step times stepSize, clamped to
\* maxMovePerStep, whatever velocity the steps before have stored; and in
\* the steps of the relaxation phase (scale below 1, up to the iteration
\* cap) the effective friction lies between the base friction and 1.
C21_NoMomentum ==
  kernelLog.ran =>
    /\ FrictionOne =>
         \A i \in Idx(cache.pointsCount) :
           cache.movable[i] = 1 =>
             \E nvx \in {Mul(fx[i], input.solve.stepSize)} :
             \E nvy \in {Mul(fy[i], input.solve.stepSize)} :
               MovedByForce(i, nvx, nvy, SqrtSq(SqSum(nvx, nvy)))
    /\ \A k \in DOMAIN kernelLog.history :
         (/\ RelaxationSteps > 0
          /\ kernelLog.history[k].iter <= input.solve.maxSteps
          /\ kernelLog.history[k].scale < ONE) =>
           /\ EffectiveFriction(input, kernelLog.history[k].scale)
                >= OrElse(input.solve.friction, ONE)
           /\ EffectiveFriction(input, kernelLog.history[k].scale) <= ONE

\* friction 1.0 in a faded step that moved a point, after a step that had
\* stored a velocity
C21_Witness ==
  /\ kernelLog.ran /\ input.solve.friction = Some(ONE)
  /\ kernelLog.scale \in 1 .. (ONE - 1)
  /\ kernelLog.maxMove > 0
  /\ \E i \in Idx(cache.pointsCount) :
       cache.movable[i] = 1 /\ (px[i] # kernelLog.px[i] \/ py[i] # kernelLog.py[i])
  /\ Len(kernelLog.history) >= 2
  /\ kernelLog.history[Len(kernelLog.history) - 1].maxMove > 0
  /\ kernelLog.history[Len(kernelLog.history)].iter <= input.solve.maxSteps

\* The last executed step ran with this.iterations = maxSteps, in a problem
\* with relaxationSteps > 0 and epsilonMove >= 0
LastStepAtCap ==
  /\ kernelLog.ran
  /\ RelaxationSteps > 0 /\ input.solve.epsilonMove >= 0
  /\ kernelLog.history[Len(kernelLog.history)].iter = input.solve.maxSteps

\* C22: with relaxationSteps > 0 and epsilonMove >= 0, the step executed
\* with iterations = maxSteps has relaxation scale 0 and effective friction
\* 1: every force and every velocity is 0 after it, no point has moved, its
\* maxMove is 0 and solved is true, however large the forces assembled in it
\* were; hence solve() never returns at the iteration cap with solved false.
C22_LastStepSolves ==
  /\ [](LastStepAtCap =>
          /\ kernelLog.scale = 0
          /\ EffectiveFriction(input, kernelLog.scale) = ONE
          /\ \A i \in Idx(cache.pointsCount) :
               /\ fx[i] = 0 /\ fy[i] = 0 /\ vx[i] = 0 /\ vy[i] = 0
               /\ px[i] = kernelLog.px[i] /\ py[i] = kernelLog.py[i]
               /\ position[i + 1].x = px[i] /\ position[i + 1].y = py[i]
          /\ kernelLog.maxMove = 0
          /\ kernelLog.clamped = {}
          /\ solved)
  /\ [][(/\ inSolve /\ ~inSolve'
         /\ RelaxationSteps > 0 /\ input.solve.epsilonMove >= 0
         /\ iterations >= input.solve.maxSteps) => solved]_vars

\* solve() has just run the step at the cap: the step before still moved a
\* point by more than epsilonMove, and kernels of the last step itself
\* assembled forces that are not zero
C22_Witness ==
  /\ LastStepAtCap /\ inSolve /\ iterations = input.solve.maxSteps
  /\ Len(kernelLog.history) = input.solve.maxSteps
  /\ kernelLog.history[Len(kernelLog.history) - 1].maxMove
       > input.solve.epsilonMove
  /\ \E k \in DOMAIN kernelLog.pairs : NonZero(kernelLog.pairs[k].contrib)
  /\ solved

====
